---- MODULE Spec2Model ----
(***************************************************************************)
(* Model of AdvancedAICaptchaSolver (src/unnamed/part_000, lines 155-474): *)
(* the cache / lazy-init / dispatch / retry / statistics pipeline of       *)
(* solve(), with clearCache(), resetStats(), cleanup() and getStats().     *)
(*                                                                         *)
(* JavaScript strings that the code concatenates or compares are modelled  *)
(* as sequences of tokens; the tokens ("hcaptcha", "recaptcha", ":", "a",  *)
(* "b", ...) form a prefix code, so two token sequences are equal exactly  *)
(* when the strings they spell are equal, and \o is string concatenation.  *)
(* The JavaScript value null is the model value Null.                      *)
(*                                                                         *)
(* Every await of the code is a point where the action ends: a call's      *)
(* position is call[c].pc.  The strategy functions (solveHCaptcha,         *)
(* solveRecaptcha) are extension points whose result is chosen             *)
(* nondeterministically: a string, the empty string, null, an exception,   *)
(* or nothing before the per-attempt timeout fires.                        *)
(***************************************************************************)
EXTENDS Integers, Sequences, FiniteSets, TLC

VARIABLES
  options,      \* this.options: [enableCaching, maxRetries]
  worker,       \* this.worker: "null" or "worker"
  initialized,  \* this.initialized
  cache,        \* this.cache: function from cache-key strings to solutions
  stats,        \* this.stats: [total, successful, failed, cached]
  cleanupPc,    \* position of the cleanup() call: "idle" or "terminating"
  call,         \* per solve() call: [pc, in, i, solution, ret, raised]
  obs,          \* per solve() call, observer: what the call did so far
  cacheBy,      \* observer: per cache key, the rqtoken of the call that wrote it
  epoch,        \* observer: what the solve() calls completed since construction
                \* or the last resetStats() were: "fresh" (none), "solved"
                \* (one non-cached success), "solved-hit" (then one cache
                \* hit), "other"
  probe,        \* inputs and outputs of the getCacheKey probe (SpecKey)
  ocr,          \* the extractText() call: [pc, inits, ret, raised, failed];
                \* failed observes that its try block threw
  eng,          \* observer of the engine handles: created (by a settled
                \* createWorker, since construction or the last completed
                \* cleanup()) and live (created and not terminated)
  watch,        \* observer of the operations, kept when watch.on: last (the
                \* operation whose step came last) and cycles (cleanup()
                \* calls that terminated a handle, counted up to 2)
  util          \* the object under study of AutomationUtils (a rate limiter
                \* or a message queue) with its callers and its clock

vars == <<options, worker, initialized, cache, stats, cleanupPc, call, obs,
          cacheBy, epoch, probe, ocr, eng, watch, util>>

pipeVars == <<options, worker, initialized, cache, stats, cleanupPc, call, obs,
              cacheBy, epoch, ocr, eng, watch, util>>

\* the variables of the captcha solver
solverVars == <<options, worker, initialized, cache, stats, cleanupPc, call, obs,
                cacheBy, epoch, probe, ocr, eng, watch>>

----------------------------------------------------------------------------
(* Bounds of the model *)

\* largest configured maxRetries under Spec
MaxRetries == 2
\* largest configured maxRetries under SpecRetry
MaxRetriesDeep == 6
\* solve() calls started per statistics epoch
MaxTotal == 2
\* longest service / sitekey string (in tokens) given to the getCacheKey probe
MaxKeyLen == 2
\* largest value of a counter given to the getStats probe
MaxCount == 3
\* last reading of the clock (Date.now(), in units of the model)
MaxClock == 4
\* largest maxActions and largest timeWindowMs of a rate limiter
MaxActions == 2
MaxWindow == 2
\* messages added to a message queue
MaxAdds == 3
\* the messages waiting in the queue at once, under an endless stream
MaxQueue == 3
\* largest threshold of a spam detector, and calls of its checker
MaxThreshold == 2
MaxChecks == 4
\* longest list of presences, and firings of the interval of a cycle
MaxPresences == 3
MaxCycleTicks == 4
\* most patterns of an auto-responder
MaxPatterns == 2
\* longest list of user ids and largest batchSize given to fetchUsersBatch
MaxUsers == 3
MaxBatch == 2

(* Program constants *)

\* Math.pow(2, i) base delay, line 290
BackoffBase == 1000
\* Math.min(..., 10000), line 290
BackoffCap == 10000
\* the window of the spam detector, in ms (line 234)
SpamWindowMs == 1000

Null == "null"

Min(a, b) == IF a < b THEN a ELSE b

----------------------------------------------------------------------------
(* Requests *)

HCAPTCHA == <<"hcaptcha">>
RECAPTCHA == <<"recaptcha">>

Data(service, sitekey, rqtoken) ==
  [isNull |-> FALSE, captcha_service |-> service, captcha_sitekey |-> sitekey,
   captcha_rqtoken |-> rqtoken]

\* captchaData = null (a malformed request)
NullData ==
  [isNull |-> TRUE, captcha_service |-> <<>>, captcha_sitekey |-> <<>>,
   captcha_rqtoken |-> Null]

\* The (captchaData, userAgent) argument pairs given to solve()
Inputs ==
  { [data |-> Data(HCAPTCHA, <<"a", ":", "b">>, "rqA"), ua |-> "ua1"],
    [data |-> Data(HCAPTCHA, <<"a", ":", "b">>, "rqB"), ua |-> "ua2"],
    [data |-> Data(RECAPTCHA, <<"a", ":", "b">>, "rqA"), ua |-> "ua1"],
    [data |-> Data(<<"turnstile">>, <<"b">>, "rqA"), ua |-> "ua1"],
    [data |-> Data(<<"hcaptcha", ":", "a">>, <<"b">>, "rqA"), ua |-> "ua1"],
    [data |-> NullData, ua |-> "ua1"] }

\* What a strategy invocation can do: return a value (a solution string, the
\* empty string or null), throw, or not settle before the timeout fires.
Solutions == {"sol-A", "sol-B"}
Outcomes ==
  { [kind |-> "return", v |-> v] : v \in Solutions \cup {"", Null} }
    \cup { [kind |-> "throw", v |-> Null], [kind |-> "timeout", v |-> Null] }

Calls == {"c1"}

----------------------------------------------------------------------------
(* Pure helpers of the class *)

\* getCacheKey: `${captcha_service}:${captcha_sitekey}`
getCacheKey(d) == d.captcha_service \o <<":">> \o d.captcha_sitekey

\* Reading a property of null throws a TypeError
KeyThrows(d) == d.isNull

\* JavaScript truthiness of a strategy result (a string or null)
Truthy(v) == v # Null /\ v # ""

\* variant: the call is counted twice
IncTotal_Twice(s) == [s EXCEPT !.total = @ + 2]

\* variant: a failed call is taken back out of the total
IncFailed_TakesBack(s) == [s EXCEPT !.failed = @ + 1, !.total = @ - 1]

IncTotal(s) == [s EXCEPT !.total = @ + 1]
IncCached(s) == [s EXCEPT !.cached = @ + 1]
IncSuccessful(s) == [s EXCEPT !.successful = @ + 1]
IncFailed(s) == [s EXCEPT !.failed = @ + 1]

ZeroStats == [total |-> 0, successful |-> 0, failed |-> 0, cached |-> 0]

\* variant: the enableCaching flag is tested inverted
CacheHit_FlagInverted(d) == ~options.enableCaching /\ getCacheKey(d) \in DOMAIN cache

\* the cache test of solve(), line 230
CacheHit(d) == options.enableCaching /\ getCacheKey(d) \in DOMAIN cache

\* the value a cache hit returns, line 233
CachedSolution(d) == cache[getCacheKey(d)]

\* variant: the catch block counts the failure and rethrows
OnFault_Rethrow(s) == [stats |-> [s EXCEPT !.failed = @ + 1], ret |-> Null, raised |-> TRUE]

\* the catch block of solve(), lines 262-266
OnFault(s) == [stats |-> IncFailed(s), ret |-> Null, raised |-> FALSE]

\* variant: a truthy result is kept for later instead of returned at once
Accepted_Never(v) == FALSE

\* the test of line 286: a truthy race result is returned at once
Accepted(v) == Truthy(v)

\* variant: a null result is handled like an exception
Rejects_NullToo(o) == o.kind = "throw" \/ o.kind = "timeout" \/ o.v = Null

\* the race of line 284 rejects: the strategy threw, or the timeout fired first
Rejects(o) == o.kind = "throw" \/ o.kind = "timeout"

\* dispatch by service, lines 243-249
HasStrategy(d) == d.captcha_service = HCAPTCHA \/ d.captcha_service = RECAPTCHA

\* variant: off by one, i <= maxRetries
MoreAttempts_OffByOne(i) == i <= options.maxRetries

\* the loop condition of solveWithRetry, line 277
MoreAttempts(i) == i < options.maxRetries

\* the backoff condition, line 289
BackoffDue(i) == i < options.maxRetries - 1

\* variant: the delay is not capped
Backoff_NoCap(i) == BackoffBase * 2^i

\* the backoff delay in ms, line 290
Backoff(i) == Min(BackoffBase * 2^i, BackoffCap)

\* variant: the solution is stored whether or not caching is enabled
CacheAfter_IgnoresFlag(d, solution) ==
  IF Truthy(solution)
  THEN [k \in DOMAIN cache \cup {getCacheKey(d)} |->
          IF k = getCacheKey(d) THEN solution ELSE cache[k]]
  ELSE cache

\* variant: an entry that exists is kept, only a missing one is written
CacheAfter_KeepsOld(d, solution) ==
  IF Truthy(solution) /\ options.enableCaching /\ getCacheKey(d) \notin DOMAIN cache
  THEN [k \in DOMAIN cache \cup {getCacheKey(d)} |->
          IF k = getCacheKey(d) THEN solution ELSE cache[k]]
  ELSE cache

\* variant: whatever solveWithRetry returned is stored, null included
CacheAfter_StoresAny(d, solution) ==
  IF options.enableCaching
  THEN [k \in DOMAIN cache \cup {getCacheKey(d)} |->
          IF k = getCacheKey(d) THEN solution ELSE cache[k]]
  ELSE cache

\* the cache after solve()'s write, lines 251-253
CacheAfter(d, solution) ==
  IF Truthy(solution) /\ options.enableCaching
  THEN [k \in DOMAIN cache \cup {getCacheKey(d)} |->
          IF k = getCacheKey(d) THEN solution ELSE cache[k]]
  ELSE cache

\* variant: every returning call is counted as a success
StatsAfter_CountsAll(s, solution) == IncSuccessful(s)

\* the counters after solve()'s bookkeeping, lines 255-259
StatsAfter(s, solution) ==
  IF Truthy(solution) THEN IncSuccessful(s) ELSE IncFailed(s)

EmptyCache == [k \in {} |-> Null]

----------------------------------------------------------------------------
(* Observer bookkeeping *)

\* delta: the call's own changes to the counters; invoked: strategy
\* invocations it made; inits: engine creations it started; delays: the
\* backoff delays it waited, in order; trail: how each of its strategy
\* invocations ended, in order; hit: answered from the cache; fault: an
\* exception reached solve()'s catch block; wrote: it wrote the cache;
\* running: strategy invocations it started that have not settled; engine:
\* how its createWorker settled ("none", "ok", "failed")
ZeroObs ==
  [delta |-> ZeroStats, invoked |-> 0, inits |-> 0, delays |-> <<>>,
   trail |-> <<>>, hit |-> FALSE, fault |-> FALSE, wrote |-> FALSE,
   running |-> 0, engine |-> "none"]

IdleCall ==
  [pc |-> "idle", in |-> [data |-> NullData, ua |-> "ua1"], i |-> 0,
   solution |-> Null, ret |-> Null, raised |-> FALSE]

\* the change a step made to the counters, added to the call's account
Account(d, before, after) ==
  [total |-> d.total + (after.total - before.total),
   successful |-> d.successful + (after.successful - before.successful),
   failed |-> d.failed + (after.failed - before.failed),
   cached |-> d.cached + (after.cached - before.cached)]

\* the observer of completed calls, after a call completed as kind k
EpochAfter(k) ==
  IF epoch = "fresh" /\ k = "solved" THEN "solved"
  ELSE IF epoch = "solved" /\ k = "hit" THEN "solved-hit"
  ELSE "other"

InFlight(c) == call[c].pc \notin {"idle", "done"}

\* no extractText() call under way
IdleOcr ==
  [pc |-> "idle", inits |-> 0, ret |-> <<>>, raised |-> FALSE, failed |-> FALSE]

\* the operation observer, switched off and switched on
WatchOff == [on |-> FALSE, last |-> "none", cycles |-> 0]
WatchOn == [on |-> TRUE, last |-> "none", cycles |-> 0]

\* the operation observer after a step of operation kind
Watch(kind) ==
  watch' = IF watch.on THEN [watch EXCEPT !.last = kind] ELSE watch

\* the operation observer after a cleanup() that terminated a handle
WatchCycle ==
  watch' = IF watch.on
           THEN [watch EXCEPT !.last = "cleanup", !.cycles = Min(@ + 1, 2)]
           ELSE watch

\* the handle observer after a createWorker that settled with a handle
Created(e) == [created |-> e.created + 1, live |-> e.live + 1]

\* variant: only a returned value settles the invocation
Settled_OnReturnOnly(ob, o) ==
  [ob EXCEPT !.trail = Append(@, o),
             !.running = IF o.kind = "return" THEN @ - 1 ELSE @]

\* the strategy invocation of an attempt that settled as o has settled,
\* unless the timeout won the race
Settled(ob, o) ==
  [ob EXCEPT !.trail = Append(@, o),
             !.running = IF o.kind = "timeout" THEN @ ELSE @ - 1]

----------------------------------------------------------------------------
(* solve(captchaData, userAgent), lines 225-267 *)

\* Lines 226-236: count the call, look in the cache, start initialize().
\* A null captchaData throws in getCacheKey and lands in the catch block.
SolveEnter(c, in) ==
  /\ call[c].pc = "idle"
  /\ stats.total < MaxTotal
  /\ LET s1 == IncTotal(stats) IN
     IF KeyThrows(in.data) THEN
       LET f == OnFault(s1) IN
       /\ stats' = f.stats
       /\ call' = [call EXCEPT ![c] = [IdleCall EXCEPT !.pc = "done",
                     !.in = in, !.ret = f.ret, !.raised = f.raised]]
       /\ obs' = [obs EXCEPT ![c] = [ZeroObs EXCEPT
                     !.delta = Account(ZeroStats, stats, f.stats),
                     !.fault = TRUE]]
       /\ epoch' = EpochAfter("failed")
     ELSE IF CacheHit(in.data) THEN
       /\ stats' = IncCached(s1)
       /\ call' = [call EXCEPT ![c] = [IdleCall EXCEPT !.pc = "done",
                     !.in = in, !.ret = CachedSolution(in.data)]]
       /\ obs' = [obs EXCEPT ![c] = [ZeroObs EXCEPT
                     !.delta = Account(ZeroStats, stats, stats'),
                     !.hit = TRUE]]
       /\ epoch' = EpochAfter("hit")
     ELSE
       /\ stats' = s1
       /\ call' = [call EXCEPT ![c] = [IdleCall EXCEPT !.in = in,
                     !.pc = IF initialized THEN "dispatch" ELSE "init"]]
       /\ obs' = [obs EXCEPT ![c] = [ZeroObs EXCEPT
                     !.delta = Account(ZeroStats, stats, s1),
                     !.inits = IF initialized THEN 0 ELSE 1]]
       /\ epoch' = epoch
  /\ Watch("step")
  /\ UNCHANGED <<options, worker, initialized, cache, cleanupPc, cacheBy, probe, util,
                 ocr, eng>>

\* variant: a createWorker failure ends the solve() call as a failure
InitSettle_FailureFatal(c, ok) ==
  /\ call[c].pc = "init"
  /\ IF ok
     THEN /\ worker' = "worker" /\ initialized' = TRUE /\ eng' = Created(eng)
          /\ call' = [call EXCEPT ![c].pc = "dispatch"]
          /\ obs' = [obs EXCEPT ![c].engine = "ok"]
          /\ UNCHANGED stats
     ELSE /\ call' = [call EXCEPT ![c].pc = "done", ![c].ret = Null]
          /\ stats' = IncFailed(stats)
          /\ obs' = [obs EXCEPT ![c].engine = "failed", ![c].fault = TRUE,
                                ![c].delta = Account(@, stats, stats')]
          /\ UNCHANGED <<worker, initialized, eng>>
  /\ Watch("step")
  /\ UNCHANGED <<options, cache, cleanupPc, cacheBy, epoch, probe, util, ocr>>

\* initialize(), lines 209-216: Tesseract.createWorker settles; a failure is
\* logged and swallowed
InitSettle(c, ok) ==
  /\ call[c].pc = "init"
  /\ IF ok
     THEN worker' = "worker" /\ initialized' = TRUE /\ eng' = Created(eng)
     ELSE UNCHANGED <<worker, initialized, eng>>
  /\ call' = [call EXCEPT ![c].pc = "dispatch"]
  /\ obs' = [obs EXCEPT ![c].engine = IF ok THEN "ok" ELSE "failed"]
  /\ Watch("step")
  /\ UNCHANGED <<options, cache, stats, cleanupPc, cacheBy, epoch, probe, util, ocr>>

\* The head of solveWithRetry's for loop with loop variable i (line 277): a
\* further strategy invocation (line 284), or the return of null (line 298)
LoopHead(c, i, ob) ==
  IF MoreAttempts(i)
  THEN /\ call' = [call EXCEPT ![c].pc = "attempt", ![c].i = i]
       /\ obs' = [obs EXCEPT ![c] = [ob EXCEPT !.invoked = @ + 1,
                                               !.running = @ + 1]]
  ELSE /\ call' = [call EXCEPT ![c].pc = "finish", ![c].i = i,
                                ![c].solution = Null]
       /\ obs' = [obs EXCEPT ![c] = ob]

\* Lines 251-261: write the cache, count the outcome, return
Complete(c, cl, ob, solution) ==
  LET d == cl.in.data IN
  /\ cache' = CacheAfter(d, solution)
  /\ cacheBy' = IF cache' # cache
                THEN [k \in DOMAIN cache' |->
                       IF k = getCacheKey(d) THEN d.captcha_rqtoken
                       ELSE cacheBy[k]]
                ELSE cacheBy
  /\ stats' = StatsAfter(stats, solution)
  /\ call' = [call EXCEPT ![c] = [cl EXCEPT !.pc = "done", !.ret = solution]]
  /\ obs' = [obs EXCEPT ![c] = [ob EXCEPT
                !.delta = Account(@, stats, stats'),
                !.wrote = cache' # cache]]
  /\ epoch' = EpochAfter(IF Truthy(solution) THEN "solved" ELSE "failed")

\* Lines 238-249: dispatch by service.  A known service enters
\* solveWithRetry; an unknown one is logged and falls through to lines
\* 251-261 without an await.
Dispatch(c) ==
  /\ call[c].pc = "dispatch"
  /\ IF HasStrategy(call[c].in.data)
     THEN /\ LoopHead(c, 0, obs[c])
          /\ UNCHANGED <<cache, cacheBy, stats, epoch>>
     ELSE Complete(c, call[c], obs[c], Null)
  /\ Watch("step")
  /\ UNCHANGED <<options, worker, initialized, cleanupPc, probe, util, ocr, eng>>

\* variant of AttemptSettle: the catch of line 287 lets a timeout through, so
\* it ends solveWithRetry and lands in solve()'s catch block
AttemptSettle_TimeoutFatal(c, o) ==
  /\ call[c].pc = "attempt"
  /\ LET i == call[c].i
         ob == Settled(obs[c], o)
     IN
     IF o.kind = "timeout" THEN
       /\ stats' = [stats EXCEPT !.failed = @ + 1]
       /\ call' = [call EXCEPT ![c].pc = "done", ![c].ret = Null]
       /\ obs' = [obs EXCEPT ![c] = [ob EXCEPT
                     !.delta = Account(@, stats, stats'), !.fault = TRUE]]
       /\ epoch' = EpochAfter("failed")
     ELSE
       /\ IF o.kind = "return" THEN
            IF o.v # Null /\ o.v # ""
            THEN /\ call' = [call EXCEPT ![c].pc = "finish", ![c].solution = o.v]
                 /\ obs' = [obs EXCEPT ![c] = ob]
            ELSE LoopHead(c, i + 1, ob)
          ELSE
            IF i < options.maxRetries - 1
            THEN /\ call' = [call EXCEPT ![c].pc = "backoff"]
                 /\ obs' = [obs EXCEPT ![c] =
                              [ob EXCEPT !.delays = Append(@, Min(1000 * 2^i, 10000))]]
            ELSE LoopHead(c, i + 1, ob)
       /\ UNCHANGED <<stats, epoch>>
  /\ Watch("step")
  /\ UNCHANGED <<options, worker, initialized, cache, cleanupPc, cacheBy, probe, util,
                 ocr, eng>>

\* Lines 284-294: the race of the strategy invocation against the timeout
\* settles as o
AttemptSettle(c, o) ==
  /\ call[c].pc = "attempt"
  /\ LET i == call[c].i
         ob == Settled(obs[c], o)
     IN
     IF ~Rejects(o) THEN
       IF Accepted(o.v)
       THEN /\ call' = [call EXCEPT ![c].pc = "finish", ![c].solution = o.v]
            /\ obs' = [obs EXCEPT ![c] = ob]
       ELSE LoopHead(c, i + 1, ob)
     ELSE
       IF BackoffDue(i)
       THEN /\ call' = [call EXCEPT ![c].pc = "backoff"]
            /\ obs' = [obs EXCEPT ![c] =
                         [ob EXCEPT !.delays = Append(@, Backoff(i))]]
       ELSE LoopHead(c, i + 1, ob)
  /\ Watch("step")
  /\ UNCHANGED <<options, worker, initialized, cache, stats, cleanupPc,
                 cacheBy, epoch, probe, util, ocr, eng>>

\* Line 292: the backoff delay is over
BackoffDone(c) ==
  /\ call[c].pc = "backoff"
  /\ LoopHead(c, call[c].i + 1, obs[c])
  /\ Watch("step")
  /\ UNCHANGED <<options, worker, initialized, cache, stats, cleanupPc,
                 cacheBy, epoch, probe, util, ocr, eng>>

\* solveWithRetry has returned: lines 251-261
Finish(c) ==
  /\ call[c].pc = "finish"
  /\ Complete(c, call[c], obs[c], call[c].solution)
  /\ Watch("step")
  /\ UNCHANGED <<options, worker, initialized, cleanupPc, probe, util, ocr, eng>>

\* The caller has taken the result; the slot is free for the next call
Return(c) ==
  /\ call[c].pc = "done"
  /\ call' = [call EXCEPT ![c] = IdleCall]
  /\ obs' = [obs EXCEPT ![c] = ZeroObs]
  /\ Watch("step")
  /\ UNCHANGED <<options, worker, initialized, cache, stats, cleanupPc,
                 cacheBy, epoch, probe, util, ocr, eng>>

\* variant: a solution that arrives late is stored and counted all the same
LateSettle_Adopted(c, o) ==
  /\ obs[c].running > (IF call[c].pc = "attempt" THEN 1 ELSE 0)
  /\ o.kind # "timeout"
  /\ obs' = [obs EXCEPT ![c].running = @ - 1]
  /\ cache' = CacheAfter(call[c].in.data, o.v)
  /\ cacheBy' = IF cache' # cache
                THEN [k \in DOMAIN cache' |->
                       IF k = getCacheKey(call[c].in.data)
                       THEN call[c].in.data.captcha_rqtoken ELSE cacheBy[k]]
                ELSE cacheBy
  /\ stats' = IF Truthy(o.v) THEN IncSuccessful(stats) ELSE stats
  /\ Watch("step")
  /\ UNCHANGED <<options, worker, initialized, cleanupPc, call,
                 epoch, probe, util, ocr, eng>>

\* A strategy invocation that lost the race to its timeout settles late, as
\* o: the race of line 284 has already been decided, and the promise of the
\* invocation has no other reader
LateSettle(c, o) ==
  /\ obs[c].running > (IF call[c].pc = "attempt" THEN 1 ELSE 0)
  /\ o.kind # "timeout"
  /\ obs' = [obs EXCEPT ![c].running = @ - 1]
  /\ Watch("step")
  /\ UNCHANGED <<options, worker, initialized, cache, stats, cleanupPc, call,
                 cacheBy, epoch, probe, util, ocr, eng>>

----------------------------------------------------------------------------
(* clearCache(), resetStats(), cleanup() *)

\* variant: clearCache() zeroes the counters as well
clearCache_ZeroesStats ==
  /\ cache' = EmptyCache
  /\ cacheBy' = EmptyCache
  /\ stats' = ZeroStats
  /\ Watch("clearCache")
  /\ UNCHANGED <<options, worker, initialized, cleanupPc, call, obs,
                 epoch, probe, util, ocr, eng>>

\* lines 431-434
clearCache ==
  /\ cache' = EmptyCache
  /\ cacheBy' = EmptyCache
  /\ Watch("clearCache")
  /\ UNCHANGED <<options, worker, initialized, stats, cleanupPc, call, obs,
                 epoch, probe, util, ocr, eng>>

\* variant: resetStats() empties the cache as well
resetStats_ClearsCache ==
  /\ stats' = ZeroStats
  /\ epoch' = IF \E c \in DOMAIN call : InFlight(c) THEN "other" ELSE "fresh"
  /\ cache' = EmptyCache
  /\ cacheBy' = EmptyCache
  /\ Watch("resetStats")
  /\ UNCHANGED <<options, worker, initialized, cleanupPc, call, obs,
                 probe, util, ocr, eng>>

\* lines 439-447
resetStats ==
  /\ stats' = ZeroStats
  /\ epoch' = IF \E c \in DOMAIN call : InFlight(c) THEN "other" ELSE "fresh"
  /\ Watch("resetStats")
  /\ UNCHANGED <<options, worker, initialized, cache, cleanupPc, call, obs,
                 cacheBy, probe, util, ocr, eng>>

\* lines 463-470 up to the await of worker.terminate(); with no worker the
\* whole of cleanup() runs here
CleanupEnter ==
  /\ cleanupPc = "idle"
  /\ IF worker # "null"
     THEN /\ cleanupPc' = "terminating"
          /\ Watch("step")
          /\ UNCHANGED <<cache, cacheBy, eng>>
     ELSE /\ cleanupPc' = "idle"
          /\ cache' = EmptyCache
          /\ cacheBy' = EmptyCache
          /\ eng' = [eng EXCEPT !.created = 0]
          /\ Watch("cleanup")
  /\ UNCHANGED <<options, worker, initialized, stats, call, obs, epoch, probe, util,
                 ocr>>

\* variant: the cache is left as it is
Teardown_KeepsCache == [worker |-> "null", initialized |-> FALSE, cache |-> cache]

\* variant: the initialized flag is left as it is
Teardown_KeepsFlag == [worker |-> "null", initialized |-> initialized, cache |-> EmptyCache]

\* lines 467-470: what cleanup() assigns once the handle is terminated
Teardown == [worker |-> "null", initialized |-> FALSE, cache |-> EmptyCache]

\* lines 466-470: worker.terminate() has settled
CleanupFinish ==
  /\ cleanupPc = "terminating"
  /\ worker' = Teardown.worker
  /\ initialized' = Teardown.initialized
  /\ cache' = Teardown.cache
  /\ cacheBy' = IF cache' = EmptyCache THEN EmptyCache ELSE cacheBy
  /\ cleanupPc' = "idle"
  /\ eng' = [created |-> 0, live |-> eng.live - 1]
  /\ WatchCycle
  /\ UNCHANGED <<options, stats, call, obs, epoch, probe, util, ocr>>

----------------------------------------------------------------------------
(* extractText(imageData, options), lines 387-404 *)

\* What worker.recognize() can settle with: a text, or a rejection
OcrTexts == {<<" ", "t", " ">>, <<" ">>}

OcrOutcomes ==
  {[kind |-> "text", text |-> t] : t \in OcrTexts}
    \cup {[kind |-> "throw", text |-> <<>>]}

\* String.prototype.trim(), line 398
RECURSIVE TrimStart(_)
TrimStart(s) ==
  IF s # <<>> /\ Head(s) = " " THEN TrimStart(Tail(s)) ELSE s

RECURSIVE TrimEnd(_)
TrimEnd(s) ==
  IF s # <<>> /\ s[Len(s)] = " " THEN TrimEnd(SubSeq(s, 1, Len(s) - 1)) ELSE s

Trim(s) == TrimEnd(TrimStart(s))

\* variant: the access to a missing worker is not caught
Recognize_Uncaught(o) ==
  IF worker = "null"
  THEN [o EXCEPT !.pc = "done", !.raised = TRUE, !.failed = TRUE]
  ELSE [o EXCEPT !.pc = "recognize"]

\* Lines 394-403: this.worker.recognize(...) inside the try block; with no
\* worker the property access throws and the catch block returns ''
Recognize(o) ==
  IF worker = "null"
  THEN [o EXCEPT !.pc = "done", !.ret = <<>>, !.failed = TRUE]
  ELSE [o EXCEPT !.pc = "recognize"]

\* Lines 388-391: initialize() is called when the flag is not set, and it
\* starts createWorker (line 205 guard passed); otherwise the try block runs
ExtractEnter ==
  /\ ocr.pc = "idle"
  /\ ocr' = IF ~initialized
            THEN [ocr EXCEPT !.pc = "init", !.inits = 1]
            ELSE Recognize(ocr)
  /\ Watch("step")
  /\ UNCHANGED <<options, worker, initialized, cache, stats, cleanupPc, call,
                 obs, cacheBy, epoch, probe, util, eng>>

\* initialize(), lines 209-216, awaited by extractText
ExtractInitSettle(ok) ==
  /\ ocr.pc = "init"
  /\ IF ok
     THEN worker' = "worker" /\ initialized' = TRUE /\ eng' = Created(eng)
     ELSE UNCHANGED <<worker, initialized, eng>>
  /\ ocr' = [ocr EXCEPT !.pc = "try"]
  /\ Watch("step")
  /\ UNCHANGED <<options, cache, stats, cleanupPc, call, obs, cacheBy, epoch,
                 probe, util>>

\* Lines 393-396, resumed after the await of line 390
ExtractTry ==
  /\ ocr.pc = "try"
  /\ ocr' = Recognize(ocr)
  /\ Watch("step")
  /\ UNCHANGED <<options, worker, initialized, cache, stats, cleanupPc, call,
                 obs, cacheBy, epoch, probe, util, eng>>

\* Lines 396-403: recognize settles; the trimmed text, or '' from the catch
ExtractSettle(o) ==
  /\ ocr.pc = "recognize"
  /\ ocr' = [ocr EXCEPT !.pc = "done",
                        !.ret = IF o.kind = "text" THEN Trim(o.text) ELSE <<>>,
                        !.failed = o.kind # "text"]
  /\ Watch("step")
  /\ UNCHANGED <<options, worker, initialized, cache, stats, cleanupPc, call,
                 obs, cacheBy, epoch, probe, util, eng>>

\* The caller takes the result of extractText
ExtractReturn ==
  /\ ocr.pc = "done"
  /\ ocr' = IdleOcr
  /\ Watch("step")
  /\ UNCHANGED <<options, worker, initialized, cache, stats, cleanupPc, call,
                 obs, cacheBy, epoch, probe, util, eng>>

----------------------------------------------------------------------------
(* getStats(), lines 420-426 *)

Digit(n) == <<"0", "1", "2", "3", "4", "5", "6", "7", "8", "9">>[n + 1]

RECURSIVE Digits(_)
Digits(n) == IF n < 10 THEN <<Digit(n)>> ELSE Digits(n \div 10) \o <<Digit(n % 10)>>

\* ((n / t) * 100).toFixed(2) + "%": the quotient in hundredths of a percent,
\* rounded to the nearest, then written with two decimals
Percent(n, t) ==
  LET h == (2 * 10000 * n + t) \div (2 * t) IN
  Digits(h \div 100) \o <<".", Digit((h \div 10) % 10), Digit(h % 10), "%">>

\* variant: with no calls counted the rate is reported as zero percent
Rate_ZeroWhenEmpty(n, t) ==
  IF t > 0 THEN Percent(n, t) ELSE <<"0", ".", "0", "0", "%">>

Rate(n, t) == IF t > 0 THEN Percent(n, t) ELSE <<"N/A">>

getStats(s) ==
  [total |-> s.total, successful |-> s.successful, failed |-> s.failed,
   cached |-> s.cached, successRate |-> Rate(s.successful, s.total),
   cacheHitRate |-> Rate(s.cached, s.total)]

\* A getStats() call: the report is built from this.stats, nothing is assigned
GetStats ==
  /\ getStats(stats).total = stats.total
  /\ Watch("getStats")
  /\ UNCHANGED <<options, worker, initialized, cache, stats, cleanupPc, call,
                 obs, cacheBy, epoch, probe, util, ocr, eng>>

----------------------------------------------------------------------------
(* The pipeline: one solve() call at a time, with the other operations *)
(* arriving at any point between its steps                               *)

NoProbe == [a |-> NullData, b |-> NullData, ka |-> <<>>, kb |-> <<>>, done |-> FALSE]

\* no AutomationUtils object under study
NoUtil == [kind |-> "none"]

InitFrom(retries, calls, counters) ==
  /\ options \in [enableCaching : BOOLEAN, maxRetries : retries]
  /\ worker = "null"
  /\ initialized = FALSE
  /\ cache = EmptyCache
  /\ stats \in counters
  /\ cleanupPc = "idle"
  /\ call = [c \in calls |-> IdleCall]
  /\ obs = [c \in calls |-> ZeroObs]
  /\ cacheBy = EmptyCache
  /\ epoch = "fresh"
  /\ ocr = IdleOcr
  /\ eng = [created |-> 0, live |-> 0]

InitCalls(retries, calls) ==
  /\ InitFrom(retries, calls, {ZeroStats})
  /\ util = NoUtil

InitPipe(retries) == InitCalls(retries, Calls)

Init ==
  /\ InitPipe(0..MaxRetries)
  /\ probe = NoProbe
  /\ watch = WatchOff

Next ==
  \/ \E c \in Calls, in \in Inputs : SolveEnter(c, in)
  \/ \E c \in Calls, ok \in BOOLEAN : InitSettle(c, ok)
  \/ \E c \in Calls : Dispatch(c)
  \/ \E c \in Calls, o \in Outcomes : AttemptSettle(c, o)
  \/ \E c \in Calls : BackoffDone(c)
  \/ \E c \in Calls : Finish(c)
  \/ \E c \in Calls : Return(c)
  \/ clearCache
  \/ resetStats
  \/ CleanupEnter
  \/ CleanupFinish
  \/ \E c \in Calls, o \in Outcomes : LateSettle(c, o)

Spec == Init /\ [][Next]_vars

----------------------------------------------------------------------------
(* solveWithRetry in depth: one solve() call for a known service, with *)
(* maxRetries up to MaxRetriesDeep                                      *)

RetryInputs == {in \in Inputs : ~in.data.isNull /\ HasStrategy(in.data)}

InitRetry ==
  /\ InitPipe(0..MaxRetriesDeep)
  /\ probe = NoProbe
  /\ watch = WatchOff

NextRetry ==
  \/ \E c \in Calls, in \in RetryInputs : SolveEnter(c, in)
  \/ \E c \in Calls, ok \in BOOLEAN : InitSettle(c, ok)
  \/ \E c \in Calls : Dispatch(c)
  \/ \E c \in Calls, o \in Outcomes : AttemptSettle(c, o)
  \/ \E c \in Calls : BackoffDone(c)
  \/ \E c \in Calls : Finish(c)

SpecRetry == InitRetry /\ [][NextRetry]_vars

----------------------------------------------------------------------------
(* getCacheKey as a pure function: two requests drawn from the strings of *)
(* at most MaxKeyLen tokens, and the keys computed for them              *)

KeyTokens == {"hcaptcha", ":", "a"}

KeyStrings == UNION {[1..n -> KeyTokens] : n \in 0..MaxKeyLen}

KeyData == {Data(s, k, t) : s \in KeyStrings, k \in KeyStrings, t \in {"rqA", "rqB"}}

InitKey ==
  /\ InitPipe({MaxRetries})
  /\ watch = WatchOff
  /\ probe \in [a : KeyData, b : KeyData, ka : {<<>>}, kb : {<<>>}, done : {FALSE}]

ProbeKeys ==
  /\ ~probe.done
  /\ probe' = [probe EXCEPT !.ka = getCacheKey(probe.a),
                            !.kb = getCacheKey(probe.b), !.done = TRUE]
  /\ UNCHANGED pipeVars

NextKey == ProbeKeys

SpecKey == InitKey /\ [][NextKey]_vars

----------------------------------------------------------------------------
(* The pipeline on which resetStats() is never called *)

InitNoReset == Init

NextNoReset ==
  \/ \E c \in Calls, in \in Inputs : SolveEnter(c, in)
  \/ \E c \in Calls, ok \in BOOLEAN : InitSettle(c, ok)
  \/ \E c \in Calls : Dispatch(c)
  \/ \E c \in Calls, o \in Outcomes : AttemptSettle(c, o)
  \/ \E c \in Calls : BackoffDone(c)
  \/ \E c \in Calls : Finish(c)
  \/ \E c \in Calls : Return(c)
  \/ clearCache
  \/ CleanupEnter
  \/ CleanupFinish

SpecNoReset == InitNoReset /\ [][NextNoReset]_vars

----------------------------------------------------------------------------
(* getStats() as a function of the counters: the counters drawn from the  *)
(* values up to MaxCount that calls and resetStats() can leave behind     *)
(* (cached is counted together with total, the others on return), and    *)
(* the report built from them                                             *)

StatsInputs ==
  {s \in [total : 0..MaxCount, successful : 0..MaxCount,
          failed : 0..MaxCount, cached : 0..MaxCount] : s.cached <= s.total}

NoReport == [report |-> getStats(ZeroStats), done |-> FALSE]

InitStats ==
  /\ InitFrom({MaxRetries}, Calls, StatsInputs)
  /\ util = NoUtil
  /\ watch = WatchOff
  /\ probe = NoReport

ProbeStats ==
  /\ ~probe.done
  /\ probe' = [report |-> getStats(stats), done |-> TRUE]
  /\ UNCHANGED pipeVars

NextStats == ProbeStats

SpecStats == InitStats /\ [][NextStats]_vars

----------------------------------------------------------------------------
(* The operations one after the other: one solve() or extractText() call at *)
(* a time, the other operations between its steps, and the operation        *)
(* observer switched on                                                     *)

InitOps ==
  /\ InitPipe({1})
  /\ probe = NoProbe
  /\ watch = WatchOn

\* solve() is called when no extractText() call is under way, and conversely
SeqSolveEnter(c, in) == ocr.pc = "idle" /\ SolveEnter(c, in)
SeqExtractEnter == (\A c \in Calls : call[c].pc = "idle") /\ ExtractEnter

NextOps ==
  \/ \E c \in Calls, in \in Inputs : SeqSolveEnter(c, in)
  \/ \E c \in Calls, ok \in BOOLEAN : InitSettle(c, ok)
  \/ \E c \in Calls : Dispatch(c)
  \/ \E c \in Calls, o \in Outcomes : AttemptSettle(c, o)
  \/ \E c \in Calls : Finish(c)
  \/ \E c \in Calls : Return(c)
  \/ SeqExtractEnter
  \/ \E ok \in BOOLEAN : ExtractInitSettle(ok)
  \/ ExtractTry
  \/ \E o \in OcrOutcomes : ExtractSettle(o)
  \/ ExtractReturn
  \/ clearCache
  \/ resetStats
  \/ GetStats
  \/ CleanupEnter
  \/ CleanupFinish

SpecOps == InitOps /\ [][NextOps]_vars

----------------------------------------------------------------------------
(* Concurrent callers: two solve() calls for the same (service, siteKey)  *)
(* and one extractText() call, their steps interleaved at every await,    *)
(* with the other operations between them                                 *)

ConcCalls == {"c1", "c2"}

ConcInputs ==
  {in \in Inputs : /\ ~in.data.isNull
                   /\ in.data.captcha_service = HCAPTCHA
                   /\ in.data.captcha_rqtoken = "rqA"}

ConcOutcomes == {o \in Outcomes : o.kind = "return" /\ o.v \in Solutions \cup {Null}}

InitConc ==
  /\ InitCalls({1}, ConcCalls)
  /\ probe = NoProbe
  /\ watch = WatchOff

NextConc ==
  \/ \E c \in ConcCalls, in \in ConcInputs : SolveEnter(c, in)
  \/ \E c \in ConcCalls, ok \in BOOLEAN : InitSettle(c, ok)
  \/ \E c \in ConcCalls : Dispatch(c)
  \/ \E c \in ConcCalls, o \in ConcOutcomes : AttemptSettle(c, o)
  \/ \E c \in ConcCalls : Finish(c)
  \/ ExtractEnter
  \/ \E ok \in BOOLEAN : ExtractInitSettle(ok)
  \/ ExtractTry
  \/ \E o \in OcrOutcomes : ExtractSettle(o)
  \/ clearCache
  \/ resetStats
  \/ GetStats
  \/ CleanupEnter
  \/ CleanupFinish

SpecConc == InitConc /\ [][NextConc]_vars

----------------------------------------------------------------------------
(* AutomationUtils.createRateLimiter(maxActions, timeWindowMs), lines 55-73 *)
(* of src/util/AutomationUtils.js: one limiter, execute() called once by   *)
(* each of three callers at any reading of the clock                       *)

Executors == {"e1", "e2", "e3"}

\* the solver stands by, untouched
InitBystander ==
  /\ InitFrom({MaxRetries}, Calls, {ZeroStats})
  /\ options.enableCaching
  /\ probe = NoProbe
  /\ watch = WatchOff

InitLimiter ==
  /\ InitBystander
  /\ util \in [kind : {"limiter"}, maxActions : 1..MaxActions,
                timeWindowMs : 1..MaxWindow, now : {0}, queue : {<<>>},
                ex : {[e \in Executors |-> [pc |-> "idle", wake |-> 0]]},
                starts : {<<>>}]

\* line 60: queue.filter(time => now - time < timeWindowMs)
RECURSIVE ValidActions(_, _)
ValidActions(q, now) ==
  IF q = <<>> THEN <<>>
  ELSE (IF now - Head(q) < util.timeWindowMs THEN <<Head(q)>> ELSE <<>>)
         \o ValidActions(Tail(q), now)

\* line 63: Math.min(...validActions)
Oldest(q) == CHOOSE t \in {q[n] : n \in 1..Len(q)} : \A n \in 1..Len(q) : t <= q[n]

\* line 69: while (queue.length > maxActions) queue.shift()
RECURSIVE Shifted(_)
Shifted(q) == IF Len(q) > util.maxActions THEN Shifted(Tail(q)) ELSE q

\* lines 68-71: the start is recorded and the action is started
Started(e) ==
  [util EXCEPT !.queue = Shifted(Append(@, util.now)),
               !.starts = Append(@, util.now),
               !.ex[e].pc = "started"]

\* lines 58-66, and lines 68-71 when the window has room
Execute(e) ==
  /\ util.kind = "limiter" /\ util.ex[e].pc = "idle"
  /\ LET validActions == ValidActions(util.queue, util.now) IN
     IF Len(validActions) >= util.maxActions
     THEN LET waitTime == util.timeWindowMs - (util.now - Oldest(validActions)) IN
          util' = [util EXCEPT !.ex[e] = [pc |-> "sleeping",
                                          wake |-> util.now + waitTime]]
     ELSE util' = Started(e)
  /\ UNCHANGED solverVars

\* line 65: the sleep is over, not before waitTime has passed
WakeUp(e) ==
  /\ util.kind = "limiter" /\ util.ex[e].pc = "sleeping"
  /\ util.now >= util.ex[e].wake
  /\ util' = Started(e)
  /\ UNCHANGED solverVars

\* the clock advances
Tick ==
  /\ util.now < MaxClock
  /\ util' = [util EXCEPT !.now = @ + 1]
  /\ UNCHANGED solverVars

NextLimiter ==
  \/ \E e \in Executors : Execute(e)
  \/ \E e \in Executors : WakeUp(e)
  \/ Tick

SpecLimiter == InitLimiter /\ [][NextLimiter]_vars

----------------------------------------------------------------------------
(* AutomationUtils.createMessageQueue(), lines 79-114 of                   *)
(* src/util/AutomationUtils.js: one queue, with add(), clear() and two     *)
(* process() calls at any point between each other's steps.  A message is  *)
(* named by the order of its addition.  Observers: taken (messages shifted *)
(* for sending), cleared (messages dropped by clear()), run (the messages  *)
(* the latest processing loop took, in order), mixed (a message was added  *)
(* while that loop was running), log (every message handed to              *)
(* channel.send, in order)                                                 *)

Processors == {"p1", "p2"}
Priorities == {0, 1}

InitQueue ==
  /\ InitBystander
  /\ util = [kind |-> "queue", now |-> 0, queue |-> <<>>, processing |-> FALSE,
             proc |-> [p \in Processors |-> [pc |-> "idle", sent |-> 0]],
             added |-> 0, taken |-> 0, cleared |-> 0, run |-> <<>>,
             mixed |-> FALSE, log |-> <<>>]

\* variant: the comparator orders by priority alone, lowest first
Compare_Ascending(a, b) == a.priority - b.priority

\* line 86: (a, b) => b.priority - a.priority || a.timestamp - b.timestamp
Compare(a, b) ==
  IF b.priority - a.priority # 0
  THEN b.priority - a.priority
  ELSE a.timestamp - b.timestamp

\* Array.prototype.sort is stable: x goes behind every element it does not
\* have to precede
RECURSIVE Insert(_, _)
Insert(x, q) ==
  IF q = <<>> THEN <<x>>
  ELSE IF Compare(x, q[Len(q)]) < 0
       THEN Append(Insert(x, SubSeq(q, 1, Len(q) - 1)), q[Len(q)])
       ELSE Append(q, x)

RECURSIVE Sort(_)
Sort(q) ==
  IF q = <<>> THEN <<>>
  ELSE Insert(q[Len(q)], Sort(SubSeq(q, 1, Len(q) - 1)))

\* add(message, channel, priority), lines 84-87
Add(priority) ==
  /\ util.kind = "queue" /\ util.added < MaxAdds
  /\ LET item == [id |-> util.added + 1, priority |-> priority,
                  timestamp |-> util.now]
     IN util' = [util EXCEPT !.queue = Sort(Append(@, item)),
                             !.added = @ + 1,
                             !.mixed = @ \/ util.processing]
  /\ UNCHANGED solverVars

\* lines 93-96 and 103: the head of the loop; with a message left it is
\* shifted and its send is awaited, with none the guard is released
LoopTop(u, p) ==
  IF Len(u.queue) > 0
  THEN [u EXCEPT !.queue = Tail(@),
                 !.taken = @ + 1,
                 !.run = Append(@, Head(u.queue)),
                 !.log = Append(@, Head(u.queue).id),
                 !.proc[p] = [pc |-> "sending", sent |-> @.sent + 1]]
  ELSE [u EXCEPT !.processing = FALSE, !.proc[p].pc = "done"]

\* variant: process() starts its loop without looking at the guard
Process_NoGuard(p) ==
  /\ util.kind = "queue" /\ util.proc[p].pc = "idle"
  /\ util' = LoopTop([util EXCEPT !.processing = TRUE, !.run = <<>>,
                                  !.mixed = FALSE], p)
  /\ UNCHANGED solverVars

\* process(delayMs), lines 89-96: with the guard set the call returns at once
\* (line 90), else it sets the guard and enters the loop
Process(p) ==
  /\ util.kind = "queue" /\ util.proc[p].pc = "idle"
  /\ util' = IF util.processing
             THEN [util EXCEPT !.proc[p].pc = "refused"]
             ELSE LoopTop([util EXCEPT !.processing = TRUE, !.run = <<>>,
                                       !.mixed = FALSE], p)
  /\ UNCHANGED solverVars

\* line 96 or lines 98-100: channel.send settled; after a success the delay
\* is awaited, after a failure the loop goes on at once
SendSettle(p, ok) ==
  /\ util.kind = "queue" /\ util.proc[p].pc = "sending"
  /\ util' = IF ok
             THEN [util EXCEPT !.proc[p].pc = "delaying"]
             ELSE LoopTop(util, p)
  /\ UNCHANGED solverVars

\* line 97: smartDelay is over
DelayDone(p) ==
  /\ util.kind = "queue" /\ util.proc[p].pc = "delaying"
  /\ util' = LoopTop(util, p)
  /\ UNCHANGED solverVars

\* clear(), lines 106-108
Clear ==
  /\ util.kind = "queue" /\ util.queue # <<>>
  /\ util' = [util EXCEPT !.queue = <<>>, !.cleared = @ + Len(util.queue)]
  /\ UNCHANGED solverVars

\* size(), lines 110-112
Size == Len(util.queue)

NextQueue ==
  \/ \E priority \in Priorities : Add(priority)
  \/ \E p \in Processors : Process(p)
  \/ \E p \in Processors, ok \in BOOLEAN : SendSettle(p, ok)
  \/ \E p \in Processors : DelayDone(p)
  \/ Clear
  \/ Tick

SpecQueue == InitQueue /\ [][NextQueue]_vars

----------------------------------------------------------------------------
(* The message queue under an endless stream of messages (lines 79-114 of  *)
(* src/util/AutomationUtils.js): add() is called any number of times, with *)
(* at most MaxQueue messages waiting at once, and process() is called      *)
(* again and again.  One message is followed (id 1); every other message   *)
(* has id 0.  Observers: tracked (where the followed message is: "none",   *)
(* "queued", "taken" for sending, "dropped" by clear()), called (process() *)
(* was called at or after its addition), during (it was added while a loop *)
(* was running), stage (a send rejected: "failed"; the loop it rejected in *)
(* finished: "released"; a later process() call started a loop: "again")   *)

StreamInit ==
  /\ InitBystander
  /\ util = [kind |-> "stream", now |-> 0, queue |-> <<>>, processing |-> FALSE,
             proc |-> [p \in Processors |-> "idle"],
             tracked |-> "none", called |-> FALSE, during |-> FALSE,
             stage |-> "none"]

\* add(message, channel, priority), lines 84-87
StreamAdd(priority, follow) ==
  /\ util.kind = "stream" /\ Len(util.queue) < MaxQueue
  /\ follow => util.tracked = "none"
  /\ LET item == [id |-> IF follow THEN 1 ELSE 0, priority |-> priority,
                  timestamp |-> util.now]
     IN util' = [util EXCEPT !.queue = Sort(Append(@, item)),
                             !.tracked = IF follow THEN "queued" ELSE @,
                             !.during = IF follow THEN util.processing ELSE @]
  /\ UNCHANGED solverVars

\* lines 93-96 and 103: the head of the loop
StreamTop(u, p) ==
  IF Len(u.queue) > 0
  THEN [u EXCEPT !.queue = Tail(@),
                 !.tracked = IF Head(u.queue).id = 1 THEN "taken" ELSE @,
                 !.proc[p] = "sending"]
  ELSE [u EXCEPT !.processing = FALSE,
                 !.proc[p] = "done",
                 !.stage = IF @ = "failed" THEN "released" ELSE @]

\* process(delayMs), lines 89-96
StreamProcess(p) ==
  /\ util.kind = "stream" /\ util.proc[p] = "idle"
  /\ LET u == [util EXCEPT !.called = @ \/ util.tracked = "queued"] IN
     util' = IF util.processing
             THEN [u EXCEPT !.proc[p] = "refused"]
             ELSE StreamTop([u EXCEPT !.processing = TRUE,
                                      !.stage = IF @ = "released" THEN "again" ELSE @],
                            p)
  /\ UNCHANGED solverVars

\* variant: a rejected send is not caught; it ends process() with the guard
\* still set
StreamSendSettle_Uncaught(p, ok) ==
  /\ util.kind = "stream" /\ util.proc[p] = "sending"
  /\ util' = IF ok
             THEN [util EXCEPT !.proc[p] = "delaying"]
             ELSE [util EXCEPT !.proc[p] = "done",
                               !.stage = IF @ = "none" THEN "released" ELSE @]
  /\ UNCHANGED solverVars

\* line 96 or lines 98-100: channel.send settled; after a success the delay
\* is awaited, after a failure the loop goes on at once
StreamSendSettle(p, ok) ==
  /\ util.kind = "stream" /\ util.proc[p] = "sending"
  /\ util' = IF ok
             THEN [util EXCEPT !.proc[p] = "delaying"]
             ELSE StreamTop([util EXCEPT !.stage = IF @ = "none" THEN "failed" ELSE @],
                            p)
  /\ UNCHANGED solverVars

\* variant: after the delay the loop ends without looking at the queue
StreamDelayDone_StopsLoop(p) ==
  /\ util.kind = "stream" /\ util.proc[p] = "delaying"
  /\ util' = [util EXCEPT !.processing = FALSE, !.proc[p] = "done"]
  /\ UNCHANGED solverVars

\* line 97: smartDelay is over
StreamDelayDone(p) ==
  /\ util.kind = "stream" /\ util.proc[p] = "delaying"
  /\ util' = StreamTop(util, p)
  /\ UNCHANGED solverVars

\* the caller has seen process() return and may call it again
StreamReturn(p) ==
  /\ util.kind = "stream" /\ util.proc[p] \in {"done", "refused"}
  /\ util' = [util EXCEPT !.proc[p] = "idle"]
  /\ UNCHANGED solverVars

\* clear(), lines 106-108
StreamClear ==
  /\ util.kind = "stream" /\ util.queue # <<>>
  /\ util' = [util EXCEPT !.queue = <<>>,
                          !.tracked = IF @ = "queued" THEN "dropped" ELSE @]
  /\ UNCHANGED solverVars

StreamNext ==
  \/ \E priority \in Priorities, follow \in BOOLEAN : StreamAdd(priority, follow)
  \/ \E p \in Processors : StreamProcess(p)
  \/ \E p \in Processors, ok \in BOOLEAN : StreamSendSettle(p, ok)
  \/ \E p \in Processors : StreamDelayDone(p)
  \/ \E p \in Processors : StreamReturn(p)
  \/ StreamClear

\* every send and every delay settles (the premise of the event loop: the
\* promise of channel.send settles and the timer of smartDelay fires)
StreamFairness ==
  \A p \in Processors :
    /\ WF_vars(\E ok \in BOOLEAN : StreamSendSettle(p, ok))
    /\ WF_vars(StreamDelayDone(p))

SpecStream == StreamInit /\ [][StreamNext]_vars /\ StreamFairness

----------------------------------------------------------------------------
(* AutomationUtils.createSpamDetector(threshold), lines 228-241 of         *)
(* src/util/AutomationUtils.js: one detector, its checker called for two   *)
(* user ids at any reading of the clock (in ms).  Observers: calls (every  *)
(* call made, with its user id and its time), last (the latest call and    *)
(* its result)                                                             *)

Users == {"u1", "u2"}

\* the steps of the clock between two calls, in ms
ClockSteps == {1, 999}

SpamInit ==
  /\ InitBystander
  /\ util \in [kind : {"spam"}, threshold : 0..MaxThreshold, now : {0},
                ticks : {0},
                messageTimestamps : {[u \in {} |-> <<>>]},
                calls : {<<>>},
                last : {[userId |-> "none", at |-> 0, result |-> FALSE]}]

\* line 233: messageTimestamps.get(userId) || []
TimestampsOf(m, userId) == IF userId \in DOMAIN m THEN m[userId] ELSE <<>>

\* line 234: timestamps.filter(t => now - t < 1000)
RECURSIVE RecentTimestamps(_, _)
RecentTimestamps(ts, now) ==
  IF ts = <<>> THEN <<>>
  ELSE (IF now - Head(ts) < SpamWindowMs THEN <<Head(ts)>> ELSE <<>>)
         \o RecentTimestamps(Tail(ts), now)

\* variant: the threshold itself already counts as spam
IsSpam_AtThreshold(recentTimestamps, threshold) == Len(recentTimestamps) >= threshold

\* line 239: recentTimestamps.length > threshold
IsSpam(recentTimestamps, threshold) == Len(recentTimestamps) > threshold

\* the checker, lines 231-240
Check(userId) ==
  /\ util.kind = "spam" /\ Len(util.calls) < MaxChecks
  /\ LET now == util.now
         recentTimestamps ==
           Append(RecentTimestamps(TimestampsOf(util.messageTimestamps, userId), now),
                  now)
     IN util' = [util EXCEPT
                   !.messageTimestamps =
                      [u \in DOMAIN @ \cup {userId} |->
                         IF u = userId THEN recentTimestamps ELSE @[u]],
                   !.calls = Append(@, [userId |-> userId, at |-> now]),
                   !.last = [userId |-> userId, at |-> now,
                             result |-> IsSpam(recentTimestamps, util.threshold)]]
  /\ UNCHANGED solverVars

\* the clock advances by dt ms
SpamTick(dt) ==
  /\ util.kind = "spam" /\ util.ticks < MaxClock
  /\ util' = [util EXCEPT !.now = @ + dt, !.ticks = @ + 1]
  /\ UNCHANGED solverVars

SpamNext ==
  \/ \E userId \in Users : Check(userId)
  \/ \E dt \in ClockSteps : SpamTick(dt)

SpecSpam == SpamInit /\ [][SpamNext]_vars

----------------------------------------------------------------------------
(* AutomationUtils.cyclePresences(client, presences, intervalMs), lines    *)
(* 123-131 of src/util/AutomationUtils.js: one cycle over a non-empty      *)
(* list, the interval firing any number of times until the returned stop   *)
(* function clears it.  Observers: applied (the presences given to         *)
(* setPresence, in order), stopCalled (the stop function was called)       *)

PresenceNames == {"online", "idle", "dnd"}

PresenceLists == UNION {[1..n -> PresenceNames] : n \in 1..MaxPresences}

CycleInit ==
  /\ InitBystander
  /\ util \in [kind : {"presence"}, presences : PresenceLists, index : {0},
                interval : {"live"}, applied : {<<>>}, stopCalled : {FALSE}]

\* line 127: index = (index + 1) % presences.length
NextIndex(index, presences) == (index + 1) % Len(presences)

\* the interval callback, lines 125-128; presences[index] is counted from 0
CycleTick ==
  /\ util.kind = "presence" /\ util.interval = "live"
  /\ Len(util.applied) < MaxCycleTicks
  /\ util' = [util EXCEPT !.applied = Append(@, util.presences[util.index + 1]),
                          !.index = NextIndex(@, util.presences)]
  /\ UNCHANGED solverVars

\* variant: the stop function leaves the interval running
CycleStop_LeavesInterval ==
  /\ util.kind = "presence" /\ ~util.stopCalled
  /\ util' = [util EXCEPT !.stopCalled = TRUE]
  /\ UNCHANGED solverVars

\* the returned stop function, line 130: clearInterval(interval)
CycleStop ==
  /\ util.kind = "presence" /\ ~util.stopCalled
  /\ util' = [util EXCEPT !.interval = "cleared", !.stopCalled = TRUE]
  /\ UNCHANGED solverVars

CycleNext ==
  \/ CycleTick
  \/ CycleStop

SpecCycle == CycleInit /\ [][CycleNext]_vars

----------------------------------------------------------------------------
(* AutomationUtils.createAutoResponder(client, patterns), lines 139-155 of *)
(* src/util/AutomationUtils.js: one responder over 1..MaxPatterns          *)
(* patterns, numbered in the order of Object.entries(patterns); two        *)
(* incoming messages, each by the client's own user or not and matching    *)
(* any set of the patterns; the handlers interleaved at their awaits; the  *)
(* returned stop function called at any point.  Observers: responses       *)
(* (every channel.send call: the message, the pattern whose response is    *)
(* sent, and whether the stop function had been called), stopCalled        *)

Incoming == {"m1", "m2"}

IdleHandler == [pc |-> "idle", own |-> FALSE, matches |-> {}, k |-> 0]

ResponderInit ==
  /\ InitBystander
  /\ util \in [kind : {"responder"}, patterns : 1..MaxPatterns,
                listening : {TRUE}, stopCalled : {FALSE},
                h : {[m \in Incoming |-> IdleHandler]},
                responses : {<<>>}]

\* lines 143-145: the first entry of Object.entries(patterns) whose regex
\* matches the content; 0 when none does
FirstMatch(matches) ==
  IF matches = {} THEN 0
  ELSE CHOOSE k \in matches : \A j \in matches : k <= j

\* the handler up to its first await, lines 140-146: messageCreate is
\* delivered for message m while the handler is registered
Handle(m, own, matches) ==
  /\ util.kind = "responder" /\ util.listening
  /\ util.h[m].pc = "idle"
  /\ matches \subseteq 1..util.patterns
  /\ LET k == FirstMatch(matches) IN
     util' = [util EXCEPT !.h[m] =
                [pc |-> IF own \/ k = 0 THEN "done" ELSE "delaying",
                 own |-> own, matches |-> matches,
                 k |-> IF own THEN 0 ELSE k]]
  /\ UNCHANGED solverVars

\* lines 146-147: smartDelay is over and channel.send is called
RespondAfterDelay(m) ==
  /\ util.kind = "responder" /\ util.h[m].pc = "delaying"
  /\ util' = [util EXCEPT
                !.h[m].pc = "sending",
                !.responses = Append(@, [m |-> m, k |-> util.h[m].k,
                                         stopped |-> util.stopCalled])]
  /\ UNCHANGED solverVars

\* lines 147-148: channel.send settled; either way the handler is over
RespondSettle(m, ok) ==
  /\ util.kind = "responder" /\ util.h[m].pc = "sending"
  /\ util' = [util EXCEPT !.h[m].pc = IF ok THEN "done" ELSE "rejected"]
  /\ UNCHANGED solverVars

\* the returned stop function, line 154: client.off('messageCreate', handler)
ResponderStop ==
  /\ util.kind = "responder" /\ ~util.stopCalled
  /\ util' = [util EXCEPT !.listening = FALSE, !.stopCalled = TRUE]
  /\ UNCHANGED solverVars

ResponderNext ==
  \/ \E m \in Incoming, own \in BOOLEAN, matches \in SUBSET (1..MaxPatterns) :
       Handle(m, own, matches)
  \/ \E m \in Incoming : RespondAfterDelay(m)
  \/ \E m \in Incoming, ok \in BOOLEAN : RespondSettle(m, ok)
  \/ ResponderStop

SpecResponder == ResponderInit /\ [][ResponderNext]_vars

----------------------------------------------------------------------------
(* AutomationUtils.fetchUsersBatch(client, userIds, batchSize), lines      *)
(* 164-180 of src/util/AutomationUtils.js: one call, for every list of at  *)
(* most MaxUsers ids and every batchSize in 0..MaxBatch; each fetch        *)
(* settles on its own, with a user or with a failure.  A fetch is named by *)
(* the position of its id in userIds.  Observers: outcome (how the fetch   *)
(* of each position settled)                                               *)

UserIds == {"a", "b"}

UserIdLists == UNION {[1..n -> UserIds] : n \in 0..MaxUsers}

\* the user that client.users.fetch(id) resolves to
User(id) == [id |-> id]

BatchInit ==
  /\ InitBystander
  /\ util \in [kind : {"batch"}, userIds : UserIdLists, batchSize : 0..MaxBatch,
                pc : {"idle"}, i : {0}, batch : {<<>>}, pending : {{}},
                outcome : {<<>>}, users : {<<>>}]

\* line 167: userIds.slice(i, i + batchSize), as positions counted from 1
Slice(userIds, i, batchSize) ==
  [n \in 1..(Min(i + batchSize, Len(userIds)) - Min(i, Len(userIds))) |-> i + n]

\* line 176: the users of the batch that are not null, in the batch's order
RECURSIVE Fetched(_, _)
Fetched(u, batch) ==
  IF batch = <<>> THEN <<>>
  ELSE (IF u.outcome[Head(batch)] = "ok"
        THEN <<User(u.userIds[Head(batch)])>> ELSE <<>>)
         \o Fetched(u, Tail(batch))

\* lines 166-175 and 179: the test of the loop; with ids left the fetches
\* of the next batch are started and awaited together, with none the users
\* are returned
BatchTop(u) ==
  IF u.i < Len(u.userIds)
  THEN LET batch == Slice(u.userIds, u.i, u.batchSize) IN
       [u EXCEPT !.pc = "fetching", !.batch = batch,
                 !.pending = {batch[n] : n \in 1..Len(batch)}]
  ELSE [u EXCEPT !.pc = "returned", !.batch = <<>>]

\* fetchUsersBatch is called, lines 164-175
FetchUsersBatch ==
  /\ util.kind = "batch" /\ util.pc = "idle"
  /\ util' = BatchTop([util EXCEPT !.outcome = [n \in 1..Len(util.userIds) |-> "none"]])
  /\ UNCHANGED solverVars

\* variant: a failed fetch is not caught and rejects the whole call
FetchSettle_Uncaught(n, ok) ==
  /\ util.kind = "batch" /\ util.pc = "fetching" /\ n \in util.pending
  /\ util' = IF ok
             THEN [util EXCEPT !.pending = @ \ {n}, !.outcome[n] = "ok"]
             ELSE [util EXCEPT !.pending = @ \ {n}, !.outcome[n] = "failed",
                               !.pc = "rejected"]
  /\ UNCHANGED solverVars

\* lines 170-173: the fetch of position n settled; a failure is logged and
\* turned into null
FetchSettle(n, ok) ==
  /\ util.kind = "batch" /\ util.pc = "fetching" /\ n \in util.pending
  /\ util' = [util EXCEPT !.pending = @ \ {n},
                          !.outcome[n] = IF ok THEN "ok" ELSE "failed"]
  /\ UNCHANGED solverVars

\* lines 168 and 176-177: Promise.all resolved, the users of the batch are
\* appended and the delay is awaited
BatchCollect ==
  /\ util.kind = "batch" /\ util.pc = "fetching" /\ util.pending = {}
  /\ util' = [util EXCEPT !.users = @ \o Fetched(util, util.batch),
                          !.pc = "delaying"]
  /\ UNCHANGED solverVars

\* line 177 and line 166: smartDelay is over, i += batchSize, and the loop
\* is tested again
BatchDelayDone ==
  /\ util.kind = "batch" /\ util.pc = "delaying"
  /\ util' = BatchTop([util EXCEPT !.i = @ + util.batchSize])
  /\ UNCHANGED solverVars

BatchNext ==
  \/ FetchUsersBatch
  \/ \E n \in 1..MaxUsers, ok \in BOOLEAN : FetchSettle(n, ok)
  \/ BatchCollect
  \/ BatchDelayDone

\* every fetch and every delay settles, and the continuation of a settled
\* promise runs
BatchFairness ==
  /\ WF_vars(\E n \in 1..MaxUsers, ok \in BOOLEAN : FetchSettle(n, ok))
  /\ WF_vars(BatchCollect)
  /\ WF_vars(BatchDelayDone)

SpecBatch == BatchInit /\ [][BatchNext]_vars /\ BatchFairness

----------------------------------------------------------------------------
(* The claims *)

\* the cache slot of a request: its (service, siteKey) pair, as the key string
Slot(d) == d.captcha_service \o <<":">> \o d.captcha_sitekey

Known(d) == d.captcha_service \in {<<"hcaptcha">>, <<"recaptcha">>}

\* how a strategy invocation ended
GaveSolution(o) == o.kind = "return" /\ o.v # Null /\ o.v # ""
Failed(o) == o.kind \in {"throw", "timeout"}

\* the steps of the solve() call c
CallStep(c) ==
  \/ \E ok \in BOOLEAN : InitSettle(c, ok)
  \/ Dispatch(c)
  \/ \E o \in Outcomes : AttemptSettle(c, o)
  \/ BackoffDone(c)
  \/ Finish(c)

\* C1: solve() never raises.  Whatever the request (a null captchaData
\* included), the strategy's behaviour and the outcome of the engine
\* initialization, a call in flight can always take its next step, and a
\* completed call has returned a solution string or null without raising;
\* a fault that reached the catch block, and any null result, is counted as
\* exactly one failed solve.
C1_SolveNeverRaises ==
  \A c \in Calls :
    /\ InFlight(c) => ENABLED CallStep(c)
    /\ call[c].pc = "done" =>
         /\ ~call[c].raised
         /\ call[c].ret \in Solutions \cup {Null}
         /\ obs[c].fault => call[c].ret = Null
         /\ call[c].ret = Null =>
              obs[c].delta.failed = 1 /\ obs[c].delta.successful = 0
         /\ obs[c].delta.failed <= 1

C1_Witness ==
  \E c \in Calls :
    /\ call[c].pc = "done" /\ obs[c].fault /\ call[c].in.data.isNull
    /\ call[c].ret = Null /\ obs[c].delta.failed = 1

\* C2: when caching is enabled and the cache holds an entry for the
\* request's slot, the solve() call returns that entry's value in its first
\* step, whatever the request's rqtoken and userAgent, invokes no strategy
\* and starts no engine initialization.
C2_CacheHitReturnsCached ==
  [][\A c \in Calls :
       (/\ call[c].pc = "idle" /\ call'[c].pc # "idle"
        /\ ~call'[c].in.data.isNull
        /\ options.enableCaching
        /\ Slot(call'[c].in.data) \in DOMAIN cache)
       => /\ call'[c].pc = "done"
          /\ call'[c].ret = cache[Slot(call'[c].in.data)]
          /\ ~call'[c].raised
          /\ obs'[c].invoked = 0
          /\ obs'[c].inits = 0
          /\ worker' = worker /\ initialized' = initialized
          /\ cache' = cache]_vars

\* a call answered from an entry that a call with another rqtoken wrote
C2_Witness ==
  \E c \in Calls :
    /\ call[c].pc = "done" /\ obs[c].hit
    /\ Slot(call[c].in.data) \in DOMAIN cache
    /\ cacheBy[Slot(call[c].in.data)] # call[c].in.data.captcha_rqtoken
    /\ call[c].ret = cache[Slot(call[c].in.data)]
    /\ obs[c].invoked = 0 /\ obs[c].inits = 0 /\ ~initialized

\* C3 (as claimed): a call answered from the cache adds one to the cache-hit
\* counter and one to the successful counter; after one successful
\* non-cached solve followed by one cache hit getStats() reports total 2,
\* successful 2, cached 1, successRate "100.00%", cacheHitRate "50.00%".
C3_CacheHitCountsAsSuccess ==
  /\ \A c \in Calls :
       call[c].pc = "done" /\ obs[c].hit =>
         obs[c].delta.cached = 1 /\ obs[c].delta.successful = 1
  /\ epoch = "solved-hit" =>
       LET r == getStats(stats) IN
       /\ r.total = 2 /\ r.successful = 2 /\ r.cached = 1
       /\ r.successRate = <<"1", "0", "0", ".", "0", "0", "%">>
       /\ r.cacheHitRate = <<"5", "0", ".", "0", "0", "%">>

\* C4: every solve() call adds exactly one to the total counter, whatever
\* its outcome: from its first step on, the call's own contribution to
\* total is 1.
C4_TotalOncePerCall ==
  \A c \in Calls : call[c].pc # "idle" => obs[c].delta.total = 1

\* a call for an unknown service, completed
C4_Witness ==
  \E c \in Calls :
    /\ call[c].pc = "done" /\ ~call[c].in.data.isNull
    /\ ~Known(call[c].in.data) /\ ~obs[c].hit
    /\ obs[c].delta.total = 1

\* C5: one solveWithRetry call invokes the strategy at most maxRetries
\* times; when no attempt produced a solution it has invoked it exactly
\* maxRetries times when it returns, and it returns null without raising.
C5_AtMostMaxRetries ==
  \A c \in Calls :
    /\ obs[c].invoked <= options.maxRetries
    /\ (/\ call[c].pc \in {"finish", "done"}
        /\ ~obs[c].hit /\ ~obs[c].fault /\ Known(call[c].in.data)
        /\ \A k \in 1..Len(obs[c].trail) : ~GaveSolution(obs[c].trail[k]))
       => /\ obs[c].invoked = options.maxRetries
          /\ Len(obs[c].trail) = options.maxRetries
          /\ call[c].solution = Null
          /\ ~call[c].raised
          /\ call[c].pc = "done" => call[c].ret = Null

\* every attempt of a call with maxRetries >= 3 threw
C5_Witness ==
  \E c \in Calls :
    /\ call[c].pc = "done" /\ options.maxRetries >= 3
    /\ obs[c].invoked = options.maxRetries
    /\ \A k \in 1..Len(obs[c].trail) : obs[c].trail[k].kind = "throw"
    /\ call[c].ret = Null

\* the delays that follow the first k attempts of a trail
DelaysWithin(trail, k) ==
  Cardinality({j \in 1..k : Failed(trail[j]) /\ j < options.maxRetries})

\* C6 (as claimed): as soon as an attempt yields a non-null result, the
\* empty string included, that result is returned: it is the last attempt,
\* no delay follows it, and it is what solveWithRetry returns.
C6_NonNullReturnedAtOnce ==
  \A c \in Calls : \A k \in 1..Len(obs[c].trail) :
    (obs[c].trail[k].kind = "return" /\ obs[c].trail[k].v # Null)
    => /\ k = Len(obs[c].trail)
       /\ obs[c].invoked = k
       /\ call[c].pc \in {"finish", "done"}
       /\ call[c].solution = obs[c].trail[k].v
       /\ Len(obs[c].delays) = DelaysWithin(obs[c].trail, k - 1)

\* C6 (amended): as soon as an attempt yields a non-null, non-empty result,
\* that result is returned: it is the last attempt, no delay follows it, and
\* it is what solveWithRetry returns.
C6_SolutionReturnedAtOnce ==
  \A c \in Calls : \A k \in 1..Len(obs[c].trail) :
    GaveSolution(obs[c].trail[k])
    => /\ k = Len(obs[c].trail)
       /\ obs[c].invoked = k
       /\ call[c].pc \in {"finish", "done"}
       /\ call[c].solution = obs[c].trail[k].v
       /\ call[c].pc = "done" => call[c].ret = obs[c].trail[k].v
       /\ Len(obs[c].delays) = DelaysWithin(obs[c].trail, k - 1)

\* the second attempt of a call that allows more gave a solution
C6_Witness ==
  \E c \in Calls :
    /\ call[c].pc = "done" /\ options.maxRetries >= 4
    /\ Len(obs[c].trail) = 2
    /\ Failed(obs[c].trail[1]) /\ GaveSolution(obs[c].trail[2])
    /\ call[c].ret = obs[c].trail[2].v /\ obs[c].invoked = 2
    /\ Len(obs[c].delays) = 1

\* min(1000 * 2^i, 10000)
ClaimedDelay(i) == IF 1000 * 2^i < 10000 THEN 1000 * 2^i ELSE 10000

\* the delays claimed for a trail: one after every attempt that threw or
\* timed out, except the final attempt (index maxRetries - 1)
RECURSIVE ClaimedDelays(_, _)
ClaimedDelays(trail, n) ==
  IF n = 0 THEN <<>>
  ELSE IF Failed(trail[n]) /\ n - 1 < options.maxRetries - 1
       THEN Append(ClaimedDelays(trail, n - 1), ClaimedDelay(n - 1))
       ELSE ClaimedDelays(trail, n - 1)

\* C7: when attempt i (zero-based) ends with an exception or a timeout and
\* more attempts remain, the call waits min(1000 * 2^i, 10000) ms and only
\* then starts attempt i+1; no delay follows the final attempt; with
\* maxRetries = 4 and every attempt failing there are exactly 4 attempts and
\* the delays 1000, 2000, 4000 in that order.
C7_BackoffSequence ==
  \A c \in Calls :
    /\ obs[c].delays = ClaimedDelays(obs[c].trail, Len(obs[c].trail))
    /\ call[c].pc = "backoff" =>
         /\ Failed(obs[c].trail[Len(obs[c].trail)])
         /\ obs[c].invoked = Len(obs[c].trail)
         /\ Len(obs[c].trail) < options.maxRetries
    /\ call[c].pc = "attempt" => obs[c].invoked = Len(obs[c].trail) + 1
    /\ Len(obs[c].delays) <= IF options.maxRetries = 0 THEN 0 ELSE options.maxRetries - 1
    /\ (/\ options.maxRetries = 4
        /\ call[c].pc \in {"finish", "done"}
        /\ Len(obs[c].trail) > 0
        /\ \A k \in 1..Len(obs[c].trail) : Failed(obs[c].trail[k]))
       => /\ obs[c].invoked = 4
          /\ obs[c].delays = <<1000, 2000, 4000>>

\* six attempts that all failed: the delays reach the cap
C7_Witness ==
  \E c \in Calls :
    /\ call[c].pc = "done" /\ options.maxRetries = 6
    /\ obs[c].invoked = 6
    /\ obs[c].delays = <<1000, 2000, 4000, 8000, 10000>>

AllKind(trail, kind, v) ==
  \A k \in 1..Len(trail) : trail[k].kind = kind /\ trail[k].v = v

\* C8: a solve() whose strategy times out on every attempt ends as one
\* whose strategy returns null on every attempt: null returned without
\* raising, failed +1, successful unchanged, nothing cached, and maxRetries
\* strategy attempts made.
C8_TimeoutIsAFailedAttempt ==
  \A c \in Calls :
    (/\ call[c].pc = "done" /\ ~obs[c].hit /\ ~call[c].in.data.isNull
     /\ Known(call[c].in.data)
     /\ \/ AllKind(obs[c].trail, "timeout", Null)
        \/ AllKind(obs[c].trail, "return", Null))
    => /\ call[c].ret = Null /\ ~call[c].raised
       /\ obs[c].delta.failed = 1 /\ obs[c].delta.successful = 0
       /\ ~obs[c].wrote
       /\ obs[c].invoked = options.maxRetries
       /\ Len(obs[c].trail) = options.maxRetries

\* two attempts, both timed out
C8_Witness ==
  \E c \in Calls :
    /\ call[c].pc = "done" /\ options.maxRetries = 2
    /\ Len(obs[c].trail) = 2 /\ AllKind(obs[c].trail, "timeout", Null)
    /\ call[c].ret = Null /\ obs[c].delta.failed = 1

\* C9 (as claimed): for every request whose service is neither hcaptcha nor
\* recaptcha, solve() returns null, invokes no strategy, waits no retry
\* delay, and adds exactly 1 to total and 1 to failed.
C9_UnknownServiceShortCircuits ==
  \A c \in Calls :
    (call[c].pc = "done" /\ ~call[c].in.data.isNull /\ ~Known(call[c].in.data))
    => /\ call[c].ret = Null
       /\ obs[c].invoked = 0 /\ obs[c].delays = <<>>
       /\ obs[c].delta.total = 1 /\ obs[c].delta.failed = 1

\* C10 (as claimed): getCacheKey ignores rqtoken, and two requests get the
\* same cache key if and only if they have the same service and the same
\* siteKey.
C10_KeyIffSamePair ==
  probe.done =>
    (probe.ka = probe.kb
      <=> (/\ probe.a.captcha_service = probe.b.captcha_service
           /\ probe.a.captcha_sitekey = probe.b.captcha_sitekey))

\* the step in which a solve() call that was not answered from the cache
\* returns
Completes(c) == call[c].pc \in {"dispatch", "finish"} /\ call'[c].pc = "done"

\* C11: when a solve() call that was not answered from the cache returns a
\* non-null solution s, that step adds one to successful, leaves failed alone
\* and, with caching enabled, leaves s as the cache entry of the request's
\* slot, created or overwritten; when it returns null, the step adds one to
\* failed, leaves successful alone and leaves the cache as it was.
C11_NonCachedBookkeeping ==
  [][\A c \in DOMAIN call :
       Completes(c) =>
         LET s == call'[c].ret
             k == Slot(call[c].in.data)
         IN IF s # Null
            THEN /\ stats'.successful = stats.successful + 1
                 /\ stats'.failed = stats.failed
                 /\ options.enableCaching => k \in DOMAIN cache' /\ cache'[k] = s
            ELSE /\ stats'.failed = stats.failed + 1
                 /\ stats'.successful = stats.successful
                 /\ cache' = cache]_vars

\* two calls missed the slot; one created the entry, the other overwrote it
\* with another solution
C11_Witness ==
  \E c, e \in DOMAIN call :
    /\ c # e /\ call[c].pc = "done" /\ call[e].pc = "done"
    /\ obs[c].wrote /\ obs[e].wrote /\ call[c].ret # call[e].ret
    /\ obs[c].delta.successful = 1 /\ obs[e].delta.successful = 1
    /\ Slot(call[c].in.data) \in DOMAIN cache
    /\ cache[Slot(call[c].in.data)] = call[c].ret

\* C12: two solve() calls for one slot, the second started while the first
\* is under way and the slot has no entry: the second misses the cache too;
\* each of them invokes the strategy itself, whatever the other is doing;
\* and the one that returns a solution last leaves its own solution as the
\* entry, over the one the other stored.
C12_NoInFlightDedup ==
  [][\A c, e \in DOMAIN call :
       c # e =>
         /\ (/\ InFlight(c) /\ ~obs[c].hit
             /\ call[e].pc = "idle" /\ call'[e].pc # "idle"
             /\ Slot(call'[e].in.data) = Slot(call[c].in.data)
             /\ Slot(call[c].in.data) \notin DOMAIN cache)
            => /\ call'[e].pc \in {"init", "dispatch"}
               /\ ~obs'[e].hit
         /\ (/\ InFlight(c)
             /\ call[e].pc = "dispatch" /\ call'[e].pc # "dispatch"
             /\ Known(call[e].in.data) /\ options.maxRetries >= 1)
            => /\ call'[e].pc = "attempt"
               /\ obs'[e].invoked = 1
         /\ (/\ call[c].pc = "done" /\ obs[c].invoked = 1
             /\ Slot(call[e].in.data) = Slot(call[c].in.data)
             /\ Completes(e) /\ call'[e].ret # Null /\ options.enableCaching)
            => /\ obs'[e].invoked = 1
               /\ cache'[Slot(call[e].in.data)] = call'[e].ret]_vars

\* both calls missed the same slot and both strategy invocations are running
C12_Witness ==
  \E c, e \in DOMAIN call :
    /\ c # e /\ call[c].pc = "attempt" /\ call[e].pc = "attempt"
    /\ Slot(call[c].in.data) = Slot(call[e].in.data)
    /\ options.enableCaching
    /\ obs[c].invoked = 1 /\ obs[e].invoked = 1
    /\ obs[c].running = 1 /\ obs[e].running = 1

\* C13 (as claimed): at most one engine handle is created between
\* construction, or the last cleanup(), and the next cleanup(), and no handle
\* is overwritten while it is live, under any interleaving of solve() and
\* extractText() calls.
C13_AtMostOneEngine == eng.created <= 1 /\ eng.live <= 1

\* the races of an attempt that the timeout won
TimedOut(trail) == Cardinality({n \in 1..Len(trail) : trail[n].kind = "timeout"})

\* 1 while the race of an attempt is undecided
Racing(c) == IF call[c].pc = "attempt" THEN 1 ELSE 0

\* C14 (as claimed): within one solve() call a strategy invocation is started
\* only after the previous one has settled, so at most one is running.
C14_AttemptsNeverOverlap == \A c \in DOMAIN call : obs[c].running <= 1

\* C14 (amended): within one solve() call a strategy invocation is started
\* only after the race of the previous attempt has been decided; the
\* invocations still running are the one of the undecided race and, at most,
\* those that lost their race to the timeout.
C14_RacesNeverOverlap ==
  \A c \in DOMAIN call :
    /\ obs[c].invoked = Len(obs[c].trail) + Racing(c)
    /\ obs[c].running >= Racing(c)
    /\ obs[c].running <= Racing(c) + TimedOut(obs[c].trail)

\* an invocation that lost its race is still running beside the next one
C14_Witness ==
  \E c \in DOMAIN call :
    /\ call[c].pc = "attempt" /\ obs[c].running = 2 /\ obs[c].invoked = 2
    /\ obs[c].trail = <<[kind |-> "timeout", v |-> Null]>>

\* C15: the step that completes a cleanup() call, with a handle to terminate
\* or without one, leaves no engine handle, initialized false and the cache
\* empty, and does not change the four counters.
C15_CleanupPostcondition ==
  [][watch'.last = "cleanup"
       => /\ worker' = "null"
          /\ ~initialized'
          /\ cache' = EmptyCache
          /\ stats' = stats]_vars

\* a cleanup() that terminated a handle and emptied a cache that held an
\* entry has completed, the counters of the solve() before it still standing
C15_Witness ==
  /\ watch.last = "cleanup" /\ watch.cycles = 1
  /\ worker = "null" /\ ~initialized /\ cache = EmptyCache
  /\ stats.total = 1 /\ stats.successful = 1
  /\ \E c \in DOMAIN call : call[c].pc = "done" /\ obs[c].wrote

\* C16: once a cleanup() has terminated a handle and none exists, the next
\* solve() that misses the cache, and the next extractText(), start the
\* creation of a handle; a creation that yields a handle installs it and sets
\* initialized, one that fails changes neither; this holds after every
\* cleanup(), however many went before.
C16_CleanupAllowsReinit ==
  [][/\ \A c \in DOMAIN call :
          /\ (/\ watch.cycles >= 1 /\ worker = "null"
              /\ call[c].pc = "idle" /\ call'[c].pc \notin {"idle", "done"})
             => /\ call'[c].pc = "init"
                /\ obs'[c].inits = 1
          /\ (call[c].pc = "init" /\ call'[c].pc # "init")
             => IF obs'[c].engine = "ok"
                THEN worker' = "worker" /\ initialized'
                ELSE worker' = worker /\ initialized' = initialized
     /\ (watch.cycles >= 1 /\ worker = "null" /\ ocr.pc = "idle" /\ ocr'.pc # "idle")
        => ocr'.pc = "init" /\ ocr'.inits = 1
     /\ (ocr.pc = "init" /\ ocr'.pc # "init")
        => \/ worker' = "worker" /\ initialized' /\ eng'.created = eng.created + 1
           \/ worker' = worker /\ initialized' = initialized /\ eng' = eng]_vars

\* after two cleanup() calls that each terminated a handle, an extractText()
\* call has created the third
C16_Witness ==
  /\ watch.cycles = 2 /\ watch.last = "step"
  /\ ocr.pc = "try" /\ ocr.inits = 1
  /\ worker = "worker" /\ initialized /\ eng.created = 1 /\ eng.live = 1

\* what a call that was not answered from the cache returns, given how its
\* strategy invocations ended
ResultOf(trail) ==
  IF trail # <<>> /\ GaveSolution(trail[Len(trail)])
  THEN trail[Len(trail)].v
  ELSE Null

\* C17: a createWorker failure inside solve() changes neither the handle nor
\* initialized, and the call goes on to dispatch; when it returns, its result
\* and its own counter changes are what its strategy invocations determine,
\* the same whether its createWorker failed or succeeded; and with
\* initialized still false the next solve() that misses the cache starts
\* createWorker again.
C17_InitFailureNonFatal ==
  [][\A c \in DOMAIN call :
       /\ (call[c].pc = "init" /\ call'[c].pc # "init")
          => /\ call'[c].pc = "dispatch"
             /\ stats' = stats /\ cache' = cache
             /\ obs'[c].engine = "failed"
                  => worker' = worker /\ initialized' = initialized
       /\ (Completes(c) /\ obs[c].engine \in {"ok", "failed"})
          => LET r == ResultOf(obs'[c].trail) IN
             /\ call'[c].ret = r
             /\ ~call'[c].raised
             /\ obs'[c].delta =
                  [total |-> 1, cached |-> 0,
                   successful |-> IF r # Null THEN 1 ELSE 0,
                   failed |-> IF r # Null THEN 0 ELSE 1]
             /\ (Known(call[c].in.data) /\ options.maxRetries >= 1)
                  => obs'[c].invoked >= 1
       /\ (/\ ~initialized
           /\ call[c].pc = "idle" /\ call'[c].pc \notin {"idle", "done"})
          => call'[c].pc = "init" /\ obs'[c].inits = 1]_vars

\* a call whose createWorker failed has returned the solution of its
\* strategy, counted as a success, and the engine is still not initialized
C17_Witness ==
  \E c \in DOMAIN call :
    /\ call[c].pc = "done" /\ obs[c].engine = "failed"
    /\ call[c].ret \in Solutions /\ obs[c].delta.successful = 1
    /\ obs[c].invoked = 2
    /\ ~initialized /\ worker = "null" /\ eng.created = 0

\* C18: a clearCache() call empties the cache and leaves the four counters
\* as they were; a resetStats() call sets the four counters to zero and
\* leaves the cache as it was.
C18_ClearAndResetFrames ==
  [][/\ watch'.last = "clearCache" => cache' = EmptyCache /\ stats' = stats
     /\ watch'.last = "resetStats" => stats' = ZeroStats /\ cache' = cache]_vars

\* a call stored a solution and was counted as a success; resetStats() then
\* zeroed the counters, and the entry was still there for the clearCache()
\* that came last
C18_Witness ==
  /\ watch.last = "clearCache" /\ cache = EmptyCache
  /\ stats = ZeroStats /\ epoch = "fresh" /\ watch.cycles = 0
  /\ \E c \in DOMAIN call :
       call[c].pc = "done" /\ obs[c].wrote /\ obs[c].delta.successful = 1

\* C19: an entry of the cache stays, with its value, across every step of
\* solve(), extractText(), getStats() and resetStats(), except that the
\* returning step of a solve() call that was not answered from the cache and
\* obtained a solution for that key replaces the value by that solution; an
\* entry is removed only by a step that is clearCache() or part of cleanup().
C19_EntriesNeverExpire ==
  [][\A k \in DOMAIN cache :
       /\ k \notin DOMAIN cache'
          => clearCache \/ CleanupEnter \/ CleanupFinish
       /\ (k \in DOMAIN cache' /\ cache'[k] # cache[k])
          => \E c \in DOMAIN call :
               /\ Completes(c) /\ ~obs'[c].hit
               /\ getCacheKey(call[c].in.data) = k
               /\ call'[c].ret # Null /\ call'[c].ret = cache'[k]
               /\ stats'.successful = stats.successful + 1]_vars

\* both calls stored a solution, the second over the first; the entry was
\* still there after the resetStats() that zeroed the counters and after an
\* extractText() call
C19_Witness ==
  /\ stats = ZeroStats /\ ocr.pc = "done" /\ cache # EmptyCache
  /\ \E c, e \in DOMAIN call :
       /\ c # e /\ call[c].pc = "done" /\ call[e].pc = "done"
       /\ obs[c].wrote /\ obs[e].wrote
       /\ call[c].ret = "sol-A" /\ call[e].ret = "sol-B"
       /\ cache[getCacheKey(call[c].in.data)] = "sol-B"

\* C20: with enableCaching false the cache is empty and the cached counter
\* is 0 in every state, no call is answered from the cache or writes it, and
\* every solve() call for a known service that has returned went through
\* the dispatch: it invoked its strategy (when maxRetries allows one).
C20_CachingDisabled ==
  ~options.enableCaching
    => /\ cache = EmptyCache
       /\ stats.cached = 0
       /\ \A c \in DOMAIN call :
            /\ ~obs[c].hit /\ ~obs[c].wrote /\ obs[c].delta.cached = 0
            /\ (/\ call[c].pc = "done" /\ ~call[c].in.data.isNull
                /\ Known(call[c].in.data))
               => /\ ~obs[c].fault
                  /\ obs[c].invoked = Len(obs[c].trail)
                  /\ options.maxRetries >= 1 => obs[c].invoked >= 1

\* with caching disabled, a second call obtained a solution from its
\* strategy after a first one had; nothing was stored
C20_Witness ==
  /\ ~options.enableCaching /\ cache = EmptyCache
  /\ stats = [total |-> 2, successful |-> 2, failed |-> 0, cached |-> 0]
  /\ \E c \in DOMAIN call :
       /\ call[c].pc = "done" /\ call[c].ret \in Solutions
       /\ obs[c].invoked >= 1 /\ Known(call[c].in.data)

\* C21: every step of every operation other than resetStats() leaves each of
\* the four counters at least as large as it was; the steps of clearCache()
\* and cleanup() among them.
C21_CountersMonotone ==
  [][watch'.last # "resetStats"
       => /\ stats'.total >= stats.total
          /\ stats'.successful >= stats.successful
          /\ stats'.failed >= stats.failed
          /\ stats'.cached >= stats.cached]_vars

\* a solved call and a cache hit were counted, and the
\* counters stand after the cleanup() that came last
C21_Witness ==
  /\ watch.last = "cleanup" /\ watch.cycles >= 1
  /\ stats = [total |-> 2, successful |-> 1, failed |-> 0, cached |-> 1]
  /\ cache = EmptyCache

\* the number a decimal digit stands for
DigitValue(t) ==
  CHOOSE n \in 0..9 : <<"0", "1", "2", "3", "4", "5", "6", "7", "8", "9">>[n + 1] = t

\* the number written by a sequence of decimal digits
RECURSIVE Number(_)
Number(ds) ==
  IF ds = <<>> THEN 0
  ELSE 10 * Number(SubSeq(ds, 1, Len(ds) - 1)) + DigitValue(ds[Len(ds)])

IsDigits(ds) ==
  \A n \in 1..Len(ds) : ds[n] \in {"0", "1", "2", "3", "4", "5", "6", "7", "8", "9"}

\* str is a percentage with two decimals, "d...d.dd%", and the number it
\* writes is 100 * n / t to the nearest hundredth
IsPercentOf(str, n, t) ==
  /\ Len(str) >= 5
  /\ str[Len(str)] = "%" /\ str[Len(str) - 3] = "."
  /\ LET whole == SubSeq(str, 1, Len(str) - 4)
         frac == SubSeq(str, Len(str) - 2, Len(str) - 1)
         h == 100 * Number(whole) + Number(frac)
         d == h * t - 10000 * n
     IN /\ IsDigits(whole) /\ IsDigits(frac)
        /\ 2 * d <= t /\ 2 * d >= -t

\* C22: the report of getStats() carries the four counters as they are at the
\* read; successRate and cacheHitRate are "N/A" exactly when total is 0, and
\* otherwise the percentages 100 * successful / total and 100 * cached / total
\* written with two decimals; and the read changes no counter, no cache entry
\* and nothing else of the solver.
C22_StatsReport ==
  [][(~probe.done /\ probe'.done)
       => LET r == probe'.report IN
          /\ r.total = stats.total /\ r.successful = stats.successful
          /\ r.failed = stats.failed /\ r.cached = stats.cached
          /\ r.successRate = <<"N/A">> <=> stats.total = 0
          /\ r.cacheHitRate = <<"N/A">> <=> stats.total = 0
          /\ stats.total > 0
               => /\ IsPercentOf(r.successRate, stats.successful, stats.total)
                  /\ IsPercentOf(r.cacheHitRate, stats.cached, stats.total)
          /\ UNCHANGED <<options, worker, initialized, cache, stats,
                         cleanupPc, call, ocr>>]_vars

\* two successes and one cache hit out of three calls, read as 66.67% and
\* 33.33%
C22_Witness ==
  /\ probe.done
  /\ stats.total = 3 /\ stats.successful = 2 /\ stats.cached = 1
  /\ probe.report.successRate = <<"6", "6", ".", "6", "7", "%">>
  /\ probe.report.cacheHitRate = <<"3", "3", ".", "3", "3", "%">>

\* C23: an extractText() call never raises: it completes with a string,
\* which is the empty string whenever the engine was missing (it was never
\* created, or its creation failed, or it was torn down) or the recognition
\* failed, and the trimmed text otherwise.
C23_ExtractTextNeverRaises ==
  ocr.pc = "done"
    => /\ ~ocr.raised
       /\ DOMAIN ocr.ret = 1..Len(ocr.ret)
       /\ \A n \in 1..Len(ocr.ret) : ocr.ret[n] \in {" ", "t"}
       /\ ocr.failed => ocr.ret = <<>>
       /\ ocr.ret # <<>> => ocr.ret[1] # " " /\ ocr.ret[Len(ocr.ret)] # " "

\* the call found no engine, its createWorker failed, and it completed with
\* the empty string
C23_Witness ==
  /\ ocr.pc = "done" /\ ocr.failed /\ ocr.inits = 1
  /\ worker = "null" /\ ~initialized /\ eng.created = 0 /\ watch.cycles = 0
  /\ ocr.ret = <<>> /\ ~ocr.raised

\* C26 (as claimed): in every state, whatever the interleaving of solve()
\* calls with resetStats(), clearCache() and cleanup(), successful + failed
\* is at most total.
C26_CountedWithinTotal == stats.successful + stats.failed <= stats.total

\* C27 (as claimed): on a pipeline whose resetStats() is never called,
\* whenever no solve() call is under way, total = successful + failed.
C27_TotalIsSuccessfulPlusFailed ==
  (\A c \in DOMAIN call : ~InFlight(c))
    => stats.total = stats.successful + stats.failed

\* C28 (as claimed): in the step that follows a completed clearCache() or
\* cleanup(), a solve() call that was already under way adds no cache entry.
C28_NoWriteAfterClear ==
  [][(/\ watch.last \in {"clearCache", "cleanup"}
      /\ \E c \in DOMAIN call : InFlight(c))
       => cache' = EmptyCache]_vars

\* C29: when a strategy invocation whose attempt has timed out settles, with
\* a value or an error, the step changes no counter and no cache entry and
\* nothing of the call: what solve() returns stays what the decided races
\* determine.
C29_LateSettleHasNoEffect ==
  [][\A c \in DOMAIN call :
       (obs'[c].running < obs[c].running /\ obs'[c].trail = obs[c].trail)
         => /\ stats' = stats
            /\ cache' = cache
            /\ call' = call
            /\ call[c].pc = "done" => call[c].ret = ResultOf(obs[c].trail)]_vars

\* the only invocation of a call lost its race to the timeout, the call
\* returned null and was counted as failed, and the invocation has settled
\* since
C29_Witness ==
  \E c \in DOMAIN call :
    /\ call[c].pc = "done" /\ call[c].ret = Null
    /\ obs[c].trail = <<[kind |-> "timeout", v |-> Null]>>
    /\ obs[c].invoked = 1 /\ obs[c].running = 0
    /\ obs[c].delta.failed = 1 /\ obs[c].delta.successful = 0
    /\ cache = EmptyCache /\ options.enableCaching

\* C30: an attempt whose strategy returns null (or the empty string) uses up
\* one attempt of maxRetries, and the next attempt, if one is left, starts in
\* the same step with no backoff delay; a backoff delay follows only an
\* attempt that ended with an exception or a timeout.
C30_NullReturnNoBackoff ==
  [][\A c \in DOMAIN call :
       (call[c].pc = "attempt" /\ Len(obs'[c].trail) = Len(obs[c].trail) + 1)
         => LET o == obs'[c].trail[Len(obs'[c].trail)] IN
            /\ (o.kind = "return" /\ o.v \in {Null, ""})
                 => /\ obs'[c].delays = obs[c].delays
                    /\ call'[c].i = call[c].i + 1
                    /\ IF call[c].i + 1 < options.maxRetries
                       THEN /\ call'[c].pc = "attempt"
                            /\ obs'[c].invoked = obs[c].invoked + 1
                       ELSE /\ call'[c].pc = "finish"
                            /\ obs'[c].invoked = obs[c].invoked
            /\ obs'[c].delays # obs[c].delays => Failed(o)]_vars

\* two attempts returned null, the third is running, and no delay was waited
C30_Witness ==
  \E c \in DOMAIN call :
    /\ call[c].pc = "attempt" /\ call[c].i = 2 /\ obs[c].invoked = 3
    /\ obs[c].trail = <<[kind |-> "return", v |-> Null], [kind |-> "return", v |-> Null]>>
    /\ obs[c].delays = <<>>

\* C24 (as claimed): whatever the interleaving of execute() calls, every time
\* window of length timeWindowMs holds the starts of at most maxActions
\* actions.
C24_AtMostMaxPerWindow ==
  util.kind = "limiter"
    => \A t \in 0..MaxClock :
         Cardinality({n \in 1..Len(util.starts) :
                        t <= util.starts[n] /\ util.starts[n] < t + util.timeWindowMs})
           <= util.maxActions

\* C25: a processing loop during which no message is added takes the
\* messages in order of descending priority, and those of equal priority in
\* the order of their addition; and size() is always the number of messages
\* added that were neither taken for sending nor cleared.
C25_PriorityQueue ==
  util.kind = "queue"
    => /\ ~util.mixed
            => \A m, n \in 1..Len(util.run) :
                 m < n => \/ util.run[m].priority > util.run[n].priority
                          \/ /\ util.run[m].priority = util.run[n].priority
                             /\ util.run[m].id < util.run[n].id
       /\ Size = util.added - util.taken - util.cleared

\* three messages of priorities 0, 1, 0 were added, the second two in the
\* same millisecond, and one loop sent them as second, first, third
C25_Witness ==
  /\ util.kind = "queue" /\ ~util.mixed /\ ~util.processing
  /\ Len(util.run) = 3 /\ Size = 0
  /\ [n \in 1..3 |-> util.run[n].id] = <<2, 1, 3>>
  /\ util.run[1].timestamp = util.run[3].timestamp
  /\ util.run[2].priority = 0 /\ util.run[3].priority = 0

\* the strategy invocation of call c that settled last returned value v
LastReturned(c, v) ==
  /\ obs[c].trail # <<>>
  /\ obs[c].trail[Len(obs[c].trail)] = [kind |-> "return", v |-> v]

\* C31: every cache entry holds a non-null, non-empty solution, written by a
\* call for that key whose last strategy invocation returned it; and every
\* step that counts a success is the completion of a call whose last strategy
\* invocation returned the non-null, non-empty solution the call returns.
C31_CacheHoldsReturnedSolutions ==
  [][/\ \A k \in DOMAIN cache' :
          /\ Truthy(cache'[k])
          /\ (k \notin DOMAIN cache \/ cache'[k] # cache[k])
               => \E c \in DOMAIN call :
                    /\ call[c].pc = "finish"
                    /\ getCacheKey(call[c].in.data) = k
                    /\ LastReturned(c, cache'[k])
     /\ stats'.successful > stats.successful
          => \E c \in DOMAIN call :
               /\ Completes(c)
               /\ Truthy(call'[c].ret)
               /\ LastReturned(c, call'[c].ret)
               /\ stats'.successful = stats.successful + 1]_vars

\* a call whose strategy returned null, then the empty string, then a
\* solution has stored that solution and was counted once, as a success
C31_Witness ==
  \E c \in DOMAIN call :
    /\ call[c].pc = "done" /\ call[c].ret = "sol-B"
    /\ obs[c].trail = <<[kind |-> "return", v |-> Null],
                        [kind |-> "return", v |-> ""],
                        [kind |-> "return", v |-> "sol-B"]>>
    /\ cache = [k \in {getCacheKey(call[c].in.data)} |-> "sol-B"]
    /\ stats.successful = 1 /\ stats.failed = 0

\* the process() calls whose loop is under way
ActiveLoops(u) == {p \in DOMAIN u.proc : u.proc[p].pc \in {"sending", "delaying"}}

\* C32: at most one processing loop is active at any time, and the guard is
\* set exactly while one is; a process() call made while a loop is running
\* returns at once, taking nothing from the queue and sending nothing; and no
\* message is handed to channel.send more than once.
C32_ProcessNonReentrant ==
  [][util.kind = "queue" =>
       /\ Cardinality(ActiveLoops(util')) <= 1
       /\ util'.processing <=> ActiveLoops(util') # {}
       /\ \A p \in Processors :
            (util.proc[p].pc = "idle" /\ util'.proc[p].pc # "idle" /\ util.processing)
              => /\ util'.proc[p] = [pc |-> "refused", sent |-> 0]
                 /\ util'.queue = util.queue /\ util'.log = util.log
                 /\ ActiveLoops(util') = ActiveLoops(util)
       /\ \A m, n \in 1..Len(util'.log) : m # n => util'.log[m] # util'.log[n]]_vars

\* a process() call made during another's loop has returned without sending,
\* with a message still queued; the running loop has taken two messages
C32_Witness ==
  /\ util.kind = "queue"
  /\ \E p, q \in Processors :
       /\ util.proc[p].pc = "delaying" /\ util.proc[p].sent = 2
       /\ util.proc[q] = [pc |-> "refused", sent |-> 0]
  /\ Len(util.queue) = 1 /\ Len(util.log) = 2

\* a processing loop finishes only with the queue empty
FinishesEmpty ==
  [][util.kind = "stream" =>
       \A p \in Processors :
         (util.proc[p] # "done" /\ util'.proc[p] = "done") => util'.queue = <<>>]_vars

\* a message was added that sorts ahead of the followed message, which waits
Overtaken ==
  /\ util.kind = "stream" /\ util.tracked = "queued"
  /\ \E n \in 1..Len(util.queue) :
       /\ util.queue[n].id = 1
       /\ Len(util'.queue) > n /\ util'.queue[n + 1].id = 1

\* C33 (as claimed): every message added is eventually taken for sending,
\* provided process() is called at or after its addition and clear() does not
\* drop it; and the queue is empty whenever a processing loop finishes.
C33_NoMessageStranded ==
  /\ FinishesEmpty
  /\ (util.tracked = "queued" /\ util.called)
       ~> (util.tracked \in {"taken", "dropped"})

\* C33 (amended): the same, for a message that is overtaken by messages of
\* higher priority added after it only finitely often.
C33_TakenUnlessOvertakenForever ==
  /\ FinishesEmpty
  /\ \/ []<><<Overtaken>>_vars
     \/ (util.tracked = "queued" /\ util.called)
          ~> (util.tracked \in {"taken", "dropped"})

\* a message added while a loop was running, behind a message of higher
\* priority, was taken by that loop, after a later process() call was refused
C33_Witness ==
  /\ util.kind = "stream"
  /\ util.tracked = "taken" /\ util.during /\ util.called
  /\ \E p, q \in Processors : util.proc[p] = "sending" /\ util.proc[q] = "refused"

\* a rejected send: the step from the await of channel.send that does not go
\* on to the delay
SendRejected(p) == util.proc[p] = "sending" /\ util'.proc[p] # util.proc[p]
                     /\ util'.proc[p] # "delaying"

\* C34: process() never rejects; after a rejected send the loop goes on at
\* once with the next message if one waits, and otherwise finishes with the
\* guard released; once a loop in which a send rejected has finished, the
\* guard is free and the next process() call takes the message at the front
\* of the queue.
C34_FailedSendDoesNotWedge ==
  [][util.kind = "stream" =>
       \A p \in Processors :
         /\ util'.proc[p] \in {"idle", "sending", "delaying", "done", "refused"}
         /\ SendRejected(p)
              => IF util.queue # <<>>
                 THEN /\ util'.proc[p] = "sending" /\ util'.queue = Tail(util.queue)
                      /\ util'.processing
                 ELSE util'.proc[p] = "done" /\ ~util'.processing
         /\ util'.stage = "released" => ~util'.processing
         /\ (util.stage = "released" /\ util.proc[p] = "idle" /\ util'.proc[p] # "idle")
              => /\ util'.stage = "again"
                 /\ IF util.queue # <<>>
                    THEN /\ util'.proc[p] = "sending" /\ util'.queue = Tail(util.queue)
                         /\ util'.processing
                    ELSE util'.proc[p] = "done" /\ ~util'.processing]_vars

\* a loop in which a send rejected has finished, and a later process() call
\* has started a loop that took the followed message
C34_Witness ==
  /\ util.kind = "stream" /\ util.stage = "again" /\ util.processing
  /\ util.tracked = "taken" /\ ~util.during
  /\ \E p, q \in Processors : util.proc[p] = "sending" /\ util.proc[q] = "done"

\* the calls made for userId within the last 1000 ms before time at, the
\* call at that time included
CallsWithin(userId, at) ==
  {n \in 1..Len(util.calls) :
     /\ util.calls[n].userId = userId
     /\ at - 1000 < util.calls[n].at /\ util.calls[n].at <= at}

\* C35: the checker returns true for a call with user id u exactly when the
\* number of calls made for u within the last 1000 ms, the current call
\* included, is greater than threshold; the calls for other user ids do not
\* count.
C35_SpamDetector ==
  (util.kind = "spam" /\ util.last.userId # "none")
    => (util.last.result
          <=> Cardinality(CallsWithin(util.last.userId, util.last.at)) > util.threshold)

\* with threshold 1, a call for u1 is answered true on the strength of a call
\* 999 ms before it, a call for u1 1000 ms before it and a call for u2 in
\* between not counting
C35_Witness ==
  /\ util.kind = "spam" /\ util.threshold = 1
  /\ util.last = [userId |-> "u1", at |-> 1000, result |-> TRUE]
  /\ util.calls = <<[userId |-> "u1", at |-> 0], [userId |-> "u1", at |-> 1],
                    [userId |-> "u2", at |-> 1], [userId |-> "u1", at |-> 1000]>>

\* C36: the n-th firing of the interval applies presences[(n - 1) mod
\* length], so the cycle starts with presences[0] and wraps to it after the
\* last element; the index stays inside the array bounds; and once the stop
\* function has been called, setPresence is not called again.
C36_RoundRobinUntilStopped ==
  [][util.kind = "presence" =>
       /\ \A n \in 1..Len(util'.applied) :
            util'.applied[n] = util.presences[((n - 1) % Len(util.presences)) + 1]
       /\ util'.index \in 0..(Len(util.presences) - 1)
       /\ util'.index = Len(util'.applied) % Len(util.presences)
       /\ Len(util'.applied) \in {Len(util.applied), Len(util.applied) + 1}
       /\ util.stopCalled => util'.applied = util.applied]_vars

\* a cycle over three different presences was stopped after four firings:
\* each was applied in order, then the first again
C36_Witness ==
  /\ util.kind = "presence" /\ util.stopCalled
  /\ util.presences = <<"online", "idle", "dnd">>
  /\ util.applied = <<"online", "idle", "dnd", "online">>
  /\ util.index = 1

\* no response goes to a message of the client's own user, a message gets at
\* most one response, and it is the response of the first matching pattern
RespondsOnceWithFirstMatch ==
  util.kind = "responder" =>
    /\ \A n \in 1..Len(util.responses) :
         LET r == util.responses[n] IN
         /\ ~util.h[r.m].own
         /\ r.k \in util.h[r.m].matches
         /\ \A j \in util.h[r.m].matches : r.k <= j
    /\ \A n, j \in 1..Len(util.responses) :
         n # j => util.responses[n].m # util.responses[j].m

\* C37 (as claimed): the auto-responder never responds to a message of the
\* client's own user, sends at most one response per incoming message, that
\* of the first matching pattern, and sends no response after the stop
\* function has been called.
C37_AutoResponder ==
  /\ RespondsOnceWithFirstMatch
  /\ util.kind = "responder" =>
       \A n \in 1..Len(util.responses) : ~util.responses[n].stopped

\* the users of the positions from n on whose fetch succeeded, in the order
\* of userIds
RECURSIVE Succeeded(_)
Succeeded(n) ==
  IF n > Len(util.userIds) THEN <<>>
  ELSE (IF util.outcome[n] = "ok" THEN <<[id |-> util.userIds[n]]>> ELSE <<>>)
         \o Succeeded(n + 1)

\* C38: fetchUsersBatch returns exactly the users fetched with success, in
\* the order of userIds; a failed fetch never rejects the call; at most
\* batchSize fetches are in flight at once; and fetches are started only
\* when none is in flight and the fetch of every earlier position has
\* settled.
C38_FetchUsersBatch ==
  [][util.kind = "batch" =>
       /\ util'.pc # "rejected"
       /\ util'.pc = "returned"
            => /\ util'.users = Succeeded(1)
               /\ \A n \in 1..Len(util.userIds) : util'.outcome[n] # "none"
       /\ Cardinality(util'.pending) <= util.batchSize
       /\ (util'.pending \ util.pending) # {}
            => /\ util.pending = {}
               /\ \A n \in util'.pending, j \in 1..Len(util.userIds) :
                    j < n /\ j \notin util'.pending => util'.outcome[j] # "none"]_vars

\* a call for three ids in batches of two has returned the first and the
\* third user, the fetch of the second having failed
C38_Witness ==
  /\ util.kind = "batch" /\ util.pc = "returned" /\ util.batchSize = 2
  /\ util.userIds = <<"a", "b", "a">>
  /\ util.outcome = <<"ok", "failed", "ok">>
  /\ util.users = <<[id |-> "a"], [id |-> "a"]>>

\* C39 (as claimed): for every list of user ids and every batchSize >= 0, a
\* call of fetchUsersBatch eventually settles, every fetch and every delay
\* settling.
C39_FetchUsersBatchTerminates ==
  (util.kind = "batch" /\ util.pc # "idle")
    ~> (util.pc \in {"returned", "rejected"})


============================================================================
